---- MODULE Spec2Model ----
(***************************************************************************)
(* OG tag validation and site audit (arach/og): validate.ts, audit.ts and  *)
(* the `og` command line.                                                  *)
(*                                                                         *)
(* Strings whose content the code inspects (paths, URLs, prompt answers,   *)
(* tag values) are sequences of tokens; a token is a run of characters the *)
(* code never looks inside.  Check names and statuses are atomic strings.  *)
(* A ValidationCheck is the record [name, status, rec]; rec says whether   *)
(* the check carries a recommendation.                                     *)
(***************************************************************************)
EXTENDS Integers, Sequences, FiniteSets, TLC

VARIABLES
    cmd,        \* the command being run: "score", "validate", "audit", "init"
    pc,         \* position of the running command
    exitCode,   \* process exit status, NotExited while the process runs
    runs,       \* number of og commands started so far
    inventoryFile,     \* the content of .og-inventory.json, or NoFile
    base,              \* auditSite: base.origin
    sitemapLocations,  \* findSitemap: const sitemapLocations
    locIndex,          \* findSitemap: index of `loc` in sitemapLocations
    sitemapMatch,      \* findSitemap: const sitemapMatch, NoMatch for null
    xml,               \* findSitemap: const xml = await res.text()
    sitemapUrls,       \* auditSite: const sitemapUrls
    paths,             \* auditSite: let paths; init command: const paths
    pathIndex,         \* auditSite: index of `path` in paths
    results,           \* auditSite: const results: AuditResult[]
    vpc,        \* validateOG: position ("idle" outside a call)
    targetUrl,  \* validateOG: the targetUrl argument
    tags,       \* validateOG: const tags = parseOGTags(html)
    checks,     \* validateOG: const checks: ValidationCheck[]
    buffer,     \* checkImage: const buffer = await response.arrayBuffer()
    pageError,  \* validateOG: the error caught at line 53, "none" without one
    result,     \* validateOG: the ValidationResult returned, or NoResult
    inflight,   \* the HTTP requests issued and not yet settled
    netLog      \* every HTTP request the command has issued, in order

\* the local variables of findSitemap
findVars == <<sitemapLocations, locIndex, sitemapMatch, xml>>

\* the variables of auditSite and of the init command, and the file they write
auditVars ==
    <<runs, inventoryFile, base, findVars, sitemapUrls, paths, pathIndex, results>>

\* the variables of the code that calls validateOG
callerVars == <<cmd, pc, exitCode, auditVars>>

validateVars ==
    <<vpc, targetUrl, tags, checks, buffer, pageError, result, inflight, netLog>>

vars == <<callerVars, validateVars>>

----------------------------------------------------------------------------
(* Bounds *)

\* longest sequence of arbitrary checks handed to calculateScore
MaxChecks == 2
\* longest first run of one repeated check in a long calculateScore input
MaxRepeat == 26
\* longest second and third run of one repeated check in a long input
MaxRun == 2
\* number of tags in which a served page may differ from a base page
MaxVaried == 2
\* number of og audit and og init commands run one after the other
MaxRuns == 2
\* largest number of <url> entries of a sitemap
MaxPages == 2

----------------------------------------------------------------------------
(* ValidationCheck *)

Statuses == {"pass", "warn", "fail"}

\* the check names validateOG emits; "URL Accessible" has no entry in the
\* weight table
CheckNames ==
    {"og:title", "og:description", "og:image", "og:image URL",
     "og:image accessible", "og:image format", "og:image size",
     "og:image dimensions", "og:url", "twitter:card", "URL Accessible"}

Check(n, s, r) == [name |-> n, status |-> s, rec |-> r]

\* no ValidationResult yet
NoResult == [url |-> <<>>, score |-> 0, maxScore |-> 0, checks |-> <<>>]

\* process.exit has not been called
NotExited == -1

----------------------------------------------------------------------------
(* calculateScore *)

\* Math.round(NaN) and 0 / 0: the JavaScript number NaN, which is no integer
\* and compares false with every number
NaN == -1

\* const weights: Record<string, number>
weights ==
    [n \in {"og:title", "og:description", "og:image", "og:image URL",
            "og:image accessible", "og:image format", "og:image size",
            "og:image dimensions", "og:url", "twitter:card"} |->
        CASE n = "og:title" -> 15
          [] n = "og:description" -> 15
          [] n = "og:image" -> 20
          [] n = "og:image URL" -> 5
          [] n = "og:image accessible" -> 15
          [] n = "og:image format" -> 5
          [] n = "og:image size" -> 10
          [] n = "og:image dimensions" -> 10
          [] n = "og:url" -> 5
          [] n = "twitter:card" -> 5]

\* const weight = weights[check.name] || 5
WeightOf(name) == IF name \in DOMAIN weights THEN weights[name] ELSE 5

\* ScoreStep with a warn credited its full weight
ScoreStepWarnFull(acc, check) ==
    LET weight == WeightOf(check.name) IN
    << acc[1] + (IF check.status \in {"pass", "warn"} THEN 2 * weight ELSE 0),
       acc[2] + weight >>

\* One iteration of `for (const check of checks)`.  acc = <<2 * score,
\* maxPossible>>: score is kept doubled, so that weight * 0.5 is an integer.
ScoreStep(acc, check) ==
    LET weight == WeightOf(check.name) IN
    << acc[1] + (CASE check.status = "pass" -> 2 * weight
                   [] check.status = "warn" -> weight
                   [] OTHER -> 0),
       acc[2] + weight >>

RECURSIVE ScoreLoop(_, _, _)
ScoreLoop(cs, i, acc) ==
    IF i > Len(cs) THEN acc ELSE ScoreLoop(cs, i + 1, ScoreStep(acc, cs[i]))

\* The integers k for which the IEEE-754 double ((k + 0.5) / 100) * 100 is
\* below k + 0.5: the quotient is rounded to the nearest double below the
\* exact value and the product stays below the half.  For every other
\* quotient score / maxPossible with maxPossible < 1500 the double result lies
\* on the same side of every half-integer as the exact value.
DoubleShortfall == {14, 28, 56, 57}

\* Math.round((score / maxPossible) * 100) with score = score2 / 2.
\* Math.round rounds a half up.
MathRoundPercent(score2, maxPossible) ==
    IF maxPossible = 0 THEN NaN
    ELSE LET num == 100 * score2
             den == 2 * maxPossible
             k   == num \div den
         IN  IF num % den = maxPossible /\ k \in DoubleShortfall
             THEN k
             ELSE (num + maxPossible) \div den

calculateScore(cs) ==
    LET acc == ScoreLoop(cs, 1, <<0, 0>>) IN MathRoundPercent(acc[1], acc[2])

----------------------------------------------------------------------------
(* Strings the code inspects, as token sequences *)

\* s.startsWith('http'): the tokens that begin with the letters http
StartsWithHttp(s) == s # <<>> /\ s[1] \in {"https://", "http"}

\* s.startsWith('/')
StartsWithSlash(s) == s # <<>> /\ s[1] = "/"

Hosts == {"x.com", "cdn.io"}

\* new URL(s) does not throw: a scheme with "://", a host, then nothing or a
\* path.  The letters http followed by anything else name no scheme.
URLParses(s) ==
    /\ Len(s) >= 2
    /\ s[1] = "https://"
    /\ s[2] \in Hosts
    /\ Len(s) > 2 => s[3] = "/"

\* `${url.protocol}//${url.host}` of a URL that parses
OriginOf(s) == SubSeq(s, 1, 2)

\* new URL(s).pathname of a URL that parses
PathnameOf(s) == IF Len(s) > 2 THEN SubSeq(s, 3, Len(s)) ELSE <<"/">>

----------------------------------------------------------------------------
(* OGTags.  A title or description is the record [present, len]: the code   *)
(* reads only whether it is there and its length.  The other tags are       *)
(* [present, s].  An absent tag is undefined in the code.                   *)

THRESHOLDS ==
    [title       |-> [min |-> 30, optimal |-> [min |-> 50, max |-> 60], max |-> 90],
     description |-> [min |-> 70, optimal |-> [min |-> 110, max |-> 160], max |-> 200],
     image       |-> [width |-> 1200, height |-> 630, maxSizeKB |-> 600]]

AbsentText == [present |-> FALSE, len |-> 0]
Text(n) == [present |-> TRUE, len |-> n]
AbsentTag == [present |-> FALSE, s |-> <<>>]
Tag(s) == [present |-> TRUE, s |-> s]
AbsentCard == [present |-> FALSE, s |-> ""]
Card(s) == [present |-> TRUE, s |-> s]

\* !title for a string or undefined: undefined and '' are falsy
FalsyText(t) == ~t.present \/ t.len = 0
FalsyTag(t) == ~t.present \/ t.s = <<>>
FalsyCard(t) == ~t.present \/ t.s = ""

NoTags ==
    [title |-> AbsentText, description |-> AbsentText, image |-> AbsentTag,
     url |-> AbsentTag, twitterCard |-> AbsentCard]

----------------------------------------------------------------------------
(* checkTitle, checkDescription, checkUrl, checkTwitterCard *)

checkTitle(title) ==
    LET len == title.len
        th  == THRESHOLDS.title
    IN  IF FalsyText(title) THEN Check("og:title", "fail", TRUE)
        ELSE IF len < th.min THEN Check("og:title", "warn", TRUE)
        ELSE IF len > th.max THEN Check("og:title", "warn", TRUE)
        ELSE IF len >= th.optimal.min /\ len <= th.optimal.max
             THEN Check("og:title", "pass", FALSE)
        ELSE Check("og:title", "pass", TRUE)

checkDescription(description) ==
    LET len == description.len
        th  == THRESHOLDS.description
    IN  IF FalsyText(description) THEN Check("og:description", "fail", TRUE)
        ELSE IF len < th.min THEN Check("og:description", "warn", TRUE)
        ELSE IF len > th.max THEN Check("og:description", "warn", TRUE)
        ELSE IF len >= th.optimal.min /\ len <= th.optimal.max
             THEN Check("og:description", "pass", FALSE)
        ELSE Check("og:description", "pass", TRUE)

\* checkUrl that fails a page without og:url
checkUrlFailsMissing(ogUrl) ==
    IF FalsyTag(ogUrl) THEN Check("og:url", "fail", TRUE)
    ELSE Check("og:url", "pass", FALSE)

checkUrl(ogUrl) ==
    IF FalsyTag(ogUrl) THEN Check("og:url", "warn", TRUE)
    ELSE Check("og:url", "pass", FALSE)

validCards == {"summary", "summary_large_image", "app", "player"}

checkTwitterCard(card) ==
    IF FalsyCard(card) THEN Check("twitter:card", "warn", TRUE)
    ELSE IF card.s \notin validCards THEN Check("twitter:card", "warn", TRUE)
    ELSE IF card.s = "summary" THEN Check("twitter:card", "pass", TRUE)
    ELSE Check("twitter:card", "pass", FALSE)

----------------------------------------------------------------------------
(* checkImage *)

\* lines 242-250: let absoluteUrl = imageUrl; resolve against the page URL
ResolveImageUrl(imageUrl, pageUrl) ==
    IF StartsWithSlash(imageUrl) THEN OriginOf(pageUrl) \o imageUrl
    ELSE IF ~StartsWithHttp(imageUrl) THEN OriginOf(pageUrl) \o <<"/">> \o imageUrl
    ELSE imageUrl

\* lines 252-268: the 'og:image URL' check
ImageUrlCheck(imageUrl) ==
    IF ~StartsWithHttp(imageUrl) THEN Check("og:image URL", "warn", TRUE)
    ELSE Check("og:image URL", "pass", FALSE)

\* MissingImageCheck as a warn
MissingImageCheckWarns == Check("og:image", "warn", TRUE)

\* lines 232-240: the check of a page without og:image
MissingImageCheck == Check("og:image", "fail", TRUE)

\* lines 276-284 and 371-378: the image cannot be fetched
ImageNotAccessible == Check("og:image accessible", "fail", TRUE)

\* lines 286-290
ImageAccessible == Check("og:image accessible", "pass", FALSE)

\* contentType.includes(part)
Includes(contentType, part) == \E i \in 1..Len(contentType) : contentType[i] = part

\* THRESHOLDS.image.formats, each as f.split('/')
formats == {<<"image", "png">>, <<"image", "jpeg">>, <<"image", "webp">>}

\* lines 292-307: the 'og:image format' check
ImageFormatCheck(contentType) ==
    IF \E f \in formats : Includes(contentType, f[2])
    THEN Check("og:image format", "pass", FALSE)
    ELSE Check("og:image format", "warn", TRUE)

\* Math.round(buffer.byteLength / 1024)
SizeKB(byteLength) == (2 * byteLength + 1024) \div 2048

\* ImageSizeCheck that fails the band below the ceiling too
ImageSizeCheckBandFails(byteLength) ==
    LET sizeKB == SizeKB(byteLength)
        maxSizeKB == THRESHOLDS.image.maxSizeKB
    IN  IF 10 * sizeKB > 8 * maxSizeKB THEN Check("og:image size", "fail", TRUE)
        ELSE Check("og:image size", "pass", FALSE)

\* lines 309-336: the 'og:image size' check; maxSizeKB * 0.8 is 480
ImageSizeCheck(byteLength) ==
    LET sizeKB == SizeKB(byteLength)
        maxSizeKB == THRESHOLDS.image.maxSizeKB
    IN  IF sizeKB > maxSizeKB THEN Check("og:image size", "fail", TRUE)
        ELSE IF 10 * sizeKB > 8 * maxSizeKB THEN Check("og:image size", "warn", TRUE)
        ELSE Check("og:image size", "pass", FALSE)

\* the probe found no dimensions: getPNGDimensions returned null
NoDims == [found |-> FALSE, width |-> 0, height |-> 0]
Dims(w, h) == [found |-> TRUE, width |-> w, height |-> h]

\* ImageDimensionsChecks that passes dimensions larger than needed
ImageDimensionsChecksAtLeast(dimensions) ==
    IF ~dimensions.found THEN <<>>
    ELSE IF /\ dimensions.width >= THRESHOLDS.image.width
            /\ dimensions.height >= THRESHOLDS.image.height
         THEN <<Check("og:image dimensions", "pass", FALSE)>>
    ELSE <<Check("og:image dimensions", "warn", TRUE)>>

\* lines 338-369: the 'og:image dimensions' check, none when the probe
\* returns null
ImageDimensionsChecks(dimensions) ==
    IF ~dimensions.found THEN <<>>
    ELSE IF /\ dimensions.width = THRESHOLDS.image.width
            /\ dimensions.height = THRESHOLDS.image.height
         THEN <<Check("og:image dimensions", "pass", FALSE)>>
    ELSE <<Check("og:image dimensions", "warn", TRUE)>>

----------------------------------------------------------------------------
(* getPNGDimensions and getJPEGDimensions                                    *)
(*                                                                         *)
(* data is a sequence of bytes, data[i] of the code being data[i + 1] here. *)

\* data[i] past the end of a Uint8Array
Undefined == -1

\* data[i]
At(data, i) == IF i < Len(data) THEN data[i + 1] ELSE Undefined

\* the operand of << and | : undefined converts to 0
ToInt32(v) == IF v = Undefined THEN 0 ELSE v

\* (a << 24) | (b << 16) | (c << 8) | d for bytes: a 32-bit signed integer
Int32OfBytes(a, b, c, d) ==
    (IF a >= 128 THEN a - 256 ELSE a) * 16777216 + b * 65536 + c * 256 + d

\* (data[i] << 24) | (data[i + 1] << 16) | (data[i + 2] << 8) | data[i + 3]
Read32(data, i) ==
    Int32OfBytes(ToInt32(At(data, i)), ToInt32(At(data, i + 1)),
                 ToInt32(At(data, i + 2)), ToInt32(At(data, i + 3)))

\* (data[i] << 8) | data[i + 1]
Read16(data, i) == ToInt32(At(data, i)) * 256 + ToInt32(At(data, i + 1))

\* lines 465-466: marker >= 0xC0 && marker <= 0xC3, false for undefined
IsSOF(marker) == marker # Undefined /\ marker >= 192 /\ marker <= 195

\* FrameDimensions that reads the width first
FrameDimensionsWidthFirst(data, offset) ==
    Dims(Read16(data, offset + 5), Read16(data, offset + 7))

\* lines 467-469: the dimensions of the frame header at offset
FrameDimensions(data, offset) == Dims(Read16(data, offset + 7), Read16(data, offset + 5))

\* NextOffset that adds the length only
NextOffsetByLength(data, offset) == offset + Read16(data, offset + 2)

\* lines 473-474: the offset after the segment at offset
NextOffset(data, offset) == offset + 2 + Read16(data, offset + 2)

\* lines 460-477: the loop of getJPEGDimensions from offset on
RECURSIVE JPEGWalk(_, _)
JPEGWalk(data, offset) ==
    IF offset >= Len(data) THEN NoDims
    ELSE IF At(data, offset) # 255 THEN NoDims
    ELSE IF IsSOF(At(data, offset + 1)) THEN FrameDimensions(data, offset)
    ELSE JPEGWalk(data, NextOffset(data, offset))

getJPEGDimensions(data) == JPEGWalk(data, 2)

\* line 442: the first four bytes are the PNG signature
HasPNGSignature(data) ==
    At(data, 0) = 137 /\ At(data, 1) = 80 /\ At(data, 2) = 78 /\ At(data, 3) = 71

\* line 444: the first two bytes are the JPEG SOI marker
HasJPEGSignature(data) == At(data, 0) = 255 /\ At(data, 1) = 216

\* lines 440-455
getPNGDimensions(data) ==
    IF ~HasPNGSignature(data)
    THEN IF HasJPEGSignature(data) THEN getJPEGDimensions(data) ELSE NoDims
    ELSE Dims(Read32(data, 16), Read32(data, 20))

\* the four bytes of n, 0 <= n < 2^31, and the two bytes of n < 2^16, big
\* endian
Quad(n) == <<n \div 16777216, (n \div 65536) % 256, (n \div 256) % 256, n % 256>>
Pair(n) == <<n \div 256, n % 256>>

\* the signature, the length and the type of the IHDR chunk, then the fields
PNGSignature == <<137, 80, 78, 71, 13, 10, 26, 10>>
PNGHeader(w, h) == PNGSignature \o <<0, 0, 0, 13, 73, 72, 68, 82>> \o w \o h

SOI == <<255, 216>>

\* an APP0 segment with two bytes after its length
APP0 == <<255, 224, 0, 4, 74, 70>>

\* a frame header of type marker for one component
SOF(marker, h, w) == <<255, marker, 0, 11, 8>> \o Pair(h) \o Pair(w) \o <<1, 1, 17, 0>>

----------------------------------------------------------------------------
(* What the network serves *)

\* lengths at and next to every threshold of th
LengthsAround(th) ==
    {0, 1, th.min - 1, th.min, th.optimal.min - 1, th.optimal.min,
     th.optimal.max, th.optimal.max + 1, th.max, th.max + 1}

TitleValues == {AbsentText} \cup {Text(n) : n \in LengthsAround(THRESHOLDS.title)}

DescriptionValues ==
    {AbsentText} \cup {Text(n) : n \in LengthsAround(THRESHOLDS.description)}

ImageValues ==
    {AbsentTag, Tag(<<>>),
     Tag(<<"https://", "cdn.io", "/", "og.png">>),
     Tag(<<"/", "og.png">>),
     Tag(<<"og.png">>),
     Tag(<<"http", "og.png">>)}

UrlValues == {AbsentTag, Tag(<<>>), Tag(<<"https://", "x.com", "/">>)}

CardValues ==
    {AbsentCard} \cup
    {Card(c) : c \in validCards \cup {"", "photo", "Summary"}}

\* every value parseOGTags can return, over the values above
AllPages ==
    [title : TitleValues, description : DescriptionValues, image : ImageValues,
     url : UrlValues, twitterCard : CardValues]

\* a page without any meta tag, and the fully optimal page
BasePages ==
    {NoTags,
     [title |-> Text(55), description |-> Text(130),
      image |-> Tag(<<"https://", "cdn.io", "/", "og.png">>),
      url |-> Tag(<<"https://", "x.com", "/">>),
      twitterCard |-> Card("summary_large_image")]}

Differences(p, q) == Cardinality({f \in DOMAIN p : p[f] # q[f]})

\* the base pages and the pages that differ from one in at most k tags
PagesWithin(k) ==
    {p \in AllPages \cup BasePages : \E b \in BasePages : Differences(p, b) <= k}

\* the content-type header of an image response, '' when there is none
ContentTypes ==
    {<<>>, <<"image/", "png">>, <<"image/", "jpeg">>, <<"image/", "webp">>,
     <<"image/", "jpg">>, <<"image/", "svg+xml">>, <<"text/", "html">>}

KB == 1024

ByteLengths ==
    {0, 200 * KB, 480 * KB + 511, 480 * KB + 512, 600 * KB, 600 * KB + 1,
     600 * KB + 511, 600 * KB + 512}

\* the first bytes of a body that is no image
NotAnImage == <<60, 115, 118, 103>>

\* the first bytes of the bodies served: no image, PNG files, a PNG file
\* whose width has the top bit set, and a JPEG file
ImageFiles ==
    {NotAnImage, PNGHeader(Quad(1200), Quad(630)), PNGHeader(Quad(2400), Quad(1260)),
     PNGHeader(Quad(1200), Quad(631)), PNGHeader(<<128, 0, 4, 176>>, Quad(630)),
     SOI \o APP0 \o SOF(192, 418, 800)}

\* what getPNGDimensions finds in the bytes of a body
ProbedDimensions == {getPNGDimensions(data) : data \in ImageFiles}

\* A body of n bytes: data and then zero bytes.  Reading a zero byte and
\* reading past the end give the probe the same values, so the dimensions
\* are those of data.
Body(n, data) ==
    [read |-> TRUE, byteLength |-> n, data |-> data,
     dimensions |-> getPNGDimensions(data)]
NoBuffer == [read |-> FALSE, byteLength |-> 0, data |-> <<>>, dimensions |-> NoDims]

AllBodies ==
    {Body(n, <<>>) : n \in ByteLengths}
        \cup {Body(n, data) : n \in ByteLengths \ {0}, data \in ImageFiles}

BaseBodies ==
    {Body(200 * KB, PNGHeader(Quad(1200), Quad(630))), Body(600 * KB + 512, NotAnImage)}

\* A validation that is run on its own, outside a session of commands
RichlyServed == cmd = "validate" /\ runs = 0

\* A validation run on its own is served any page within MaxVaried tags of a
\* base page, any content type, and any body for the image of a base page; the
\* commands of a session are served the base pages, PNG images and one body.
ServedPages == IF RichlyServed THEN PagesWithin(MaxVaried) ELSE BasePages
ServedContentTypes ==
    IF RichlyServed THEN ContentTypes ELSE {<<"image/", "png">>}
ServedBodies ==
    IF ~RichlyServed THEN {Body(200 * KB, PNGHeader(Quad(1200), Quad(630)))}
    ELSE IF tags \in BasePages THEN AllBodies
    ELSE BaseBodies

----------------------------------------------------------------------------
(* validateOG *)

PageRequest(url) == [kind |-> "page", url |-> url]
ImageRequest(url) == [kind |-> "image", url |-> url]

\* lines 54-63: the result of a page that cannot be fetched
FetchFailure(url) ==
    [url |-> url, score |-> 0, maxScore |-> 100,
     checks |-> <<Check("URL Accessible", "fail", FALSE)>>]

\* lines 40-48: the call, up to the first await
CallValidateOG(url) ==
    /\ vpc' = "pageFetch"
    /\ targetUrl' = url
    /\ tags' = NoTags
    /\ checks' = <<>>
    /\ buffer' = NoBuffer
    /\ pageError' = "none"
    /\ result' = NoResult
    /\ inflight' = {PageRequest(url)}
    /\ netLog' = Append(netLog, PageRequest(url))

\* FinishValidateOG that returns without the last two checks when the last
\* image check failed
FinishValidateOGStopsAtFail(cs, t) ==
    LET all == IF cs[Len(cs)].status = "fail" THEN cs
               ELSE cs \o <<checkUrl(t.url), checkTwitterCard(t.twitterCard)>> IN
    /\ checks' = all
    /\ result' = [url |-> targetUrl, score |-> calculateScore(all),
                  maxScore |-> 100, checks |-> all]
    /\ vpc' = "returned"
    /\ inflight' = {}

\* lines 79-93, after checkImage returned cs appended to checks: the og:url
\* and twitter:card checks, the score and the return
FinishValidateOG(cs, t) ==
    LET all == cs \o <<checkUrl(t.url), checkTwitterCard(t.twitterCard)>> IN
    /\ checks' = all
    /\ result' = [url |-> targetUrl, score |-> calculateScore(all),
                  maxScore |-> 100, checks |-> all]
    /\ vpc' = "returned"
    /\ inflight' = {}

\* the catch of lines 53-64
ReturnFetchFailure(error) ==
    /\ pageError' = error
    /\ result' = FetchFailure(targetUrl)
    /\ vpc' = "returned"
    /\ inflight' = {}
    /\ UNCHANGED <<callerVars, targetUrl, tags, checks, buffer, netLog>>

\* PageFetchFails without the throw of lines 49-51: the response that is not
\* ok is read like any other
PageFetchFailsReadAnyway ==
    /\ vpc = "pageFetch"
    /\ pageError' = "http"
    /\ vpc' = "pageText"
    /\ UNCHANGED <<callerVars, targetUrl, tags, checks, buffer, result, inflight, netLog>>

\* fetch(targetUrl) rejects ("network"), or resolves with a response that is
\* not ok ("http": lines 49-51 throw)
PageFetchFails ==
    /\ vpc = "pageFetch"
    /\ \E error \in {"network", "http"} :
        /\ error = "http" => URLParses(targetUrl)
        /\ ReturnFetchFailure(error)

\* fetch(targetUrl) resolves with an ok response: await response.text()
PageFetchOk ==
    /\ vpc = "pageFetch"
    /\ URLParses(targetUrl)
    /\ vpc' = "pageText"
    /\ UNCHANGED <<callerVars, targetUrl, tags, checks, buffer, pageError, result,
                   inflight, netLog>>

\* response.text() rejects
PageTextFails ==
    /\ vpc = "pageText"
    /\ ReturnFetchFailure("body")

\* PageTextOk with the image request issued while the page request is still
\* counted as in flight
PageTextOkOverlapsImage ==
    /\ vpc = "pageText"
    /\ \E page \in ServedPages :
        LET cs == <<checkTitle(page.title), checkDescription(page.description)>> IN
        /\ tags' = page
        /\ IF FalsyTag(page.image)
           THEN /\ FinishValidateOG(cs \o <<MissingImageCheck>>, page)
                /\ UNCHANGED netLog
           ELSE LET absoluteUrl == ResolveImageUrl(page.image.s, targetUrl) IN
                /\ checks' = cs \o <<ImageUrlCheck(page.image.s)>>
                /\ inflight' = inflight \cup {ImageRequest(absoluteUrl)}
                /\ netLog' = Append(netLog, ImageRequest(absoluteUrl))
                /\ vpc' = "imageFetch"
                /\ UNCHANGED result
    /\ UNCHANGED <<callerVars, targetUrl, buffer, pageError>>

\* response.text() resolves: lines 66-76 and checkImage up to its fetch
\* (lines 229-274), or to its return when there is no og:image
PageTextOk ==
    /\ vpc = "pageText"
    /\ \E page \in ServedPages :
        LET cs == <<checkTitle(page.title), checkDescription(page.description)>> IN
        /\ tags' = page
        /\ IF FalsyTag(page.image)
           THEN /\ FinishValidateOG(cs \o <<MissingImageCheck>>, page)
                /\ UNCHANGED netLog
           ELSE LET absoluteUrl == ResolveImageUrl(page.image.s, targetUrl) IN
                /\ checks' = cs \o <<ImageUrlCheck(page.image.s)>>
                /\ inflight' = {ImageRequest(absoluteUrl)}
                /\ netLog' = Append(netLog, ImageRequest(absoluteUrl))
                /\ vpc' = "imageFetch"
                /\ UNCHANGED result
    /\ UNCHANGED <<callerVars, targetUrl, buffer, pageError>>

TheImageRequest == CHOOSE r \in inflight : r.kind = "image"

\* fetch(absoluteUrl) rejects: the catch of lines 371-378
ImageFetchFails ==
    /\ vpc = "imageFetch"
    /\ FinishValidateOG(checks \o <<ImageNotAccessible>>, tags)
    /\ UNCHANGED <<callerVars, targetUrl, tags, buffer, pageError, netLog>>

\* the response is not ok: lines 276-284
ImageFetchNotOk ==
    /\ vpc = "imageFetch"
    /\ URLParses(TheImageRequest.url)
    /\ FinishValidateOG(checks \o <<ImageNotAccessible>>, tags)
    /\ UNCHANGED <<callerVars, targetUrl, tags, buffer, pageError, netLog>>

\* the response is ok: lines 286-310, up to await response.arrayBuffer()
ImageFetchOk ==
    /\ vpc = "imageFetch"
    /\ URLParses(TheImageRequest.url)
    /\ \E contentType \in ServedContentTypes :
        checks' = checks \o <<ImageAccessible, ImageFormatCheck(contentType)>>
    /\ vpc' = "imageBody"
    /\ UNCHANGED <<callerVars, targetUrl, tags, buffer, pageError, result, inflight,
                   netLog>>

\* response.arrayBuffer() rejects: the catch of lines 371-378
ImageBodyFails ==
    /\ vpc = "imageBody"
    /\ FinishValidateOG(checks \o <<ImageNotAccessible>>, tags)
    /\ UNCHANGED <<callerVars, targetUrl, tags, buffer, pageError, netLog>>

\* response.arrayBuffer() resolves: lines 310-369
ImageBodyOk ==
    /\ vpc = "imageBody"
    /\ \E body \in ServedBodies :
        /\ buffer' = body
        /\ FinishValidateOG(
               checks \o <<ImageSizeCheck(body.byteLength)>>
                      \o ImageDimensionsChecks(body.dimensions), tags)
    /\ UNCHANGED <<callerVars, targetUrl, tags, pageError, netLog>>

ValidateOGStep ==
    \/ PageFetchFails
    \/ PageFetchOk
    \/ PageTextFails
    \/ PageTextOk
    \/ ImageFetchFails
    \/ ImageFetchNotOk
    \/ ImageFetchOk
    \/ ImageBodyFails
    \/ ImageBodyOk

----------------------------------------------------------------------------
(* auditSite: the records it builds and the file it writes *)

\* AuditResult; the optional fields (title ... imageDimensions) are left out:
\* nothing reads them
AuditResult(url, path, score, issues) ==
    [url |-> url, path |-> path, score |-> score, issues |-> issues]

\* OGInventory as JSON.stringify writes it and JSON.parse reads it back: its
\* values are integers, strings and arrays of them, which the round trip
\* keeps.  auditedAt, a timestamp, is left out.
Inventory(baseUrl, totalPages, averageScore, pages) ==
    [exists |-> TRUE, baseUrl |-> baseUrl, totalPages |-> totalPages,
     averageScore |-> averageScore, pages |-> pages]

\* there is no .og-inventory.json: readFile rejects
NoFile ==
    [exists |-> FALSE, baseUrl |-> <<>>, totalPages |-> 0, averageScore |-> 0,
     pages |-> <<>>]

\* robotsTxt.match(/Sitemap:\s*(.+)/i): null, or the trimmed group 1
NoMatch == [found |-> FALSE, s |-> <<>>]
Match(s) == [found |-> TRUE, s |-> s]

\* a sitemap document: whether it includes '<sitemapindex', the <loc> of its
\* <url> entries and the <loc> of its <sitemap> entries
Xml(index, urls, sitemaps) ==
    [read |-> TRUE, sitemapindex |-> index, urls |-> urls, sitemaps |-> sitemaps]
NoXml == [read |-> FALSE, sitemapindex |-> FALSE, urls |-> <<>>, sitemaps |-> <<>>]

\* no auditSite call and no init command has set its variables
NoAudit ==
    /\ base = <<>>
    /\ sitemapLocations = <<>>
    /\ locIndex = 0
    /\ sitemapMatch = NoMatch
    /\ xml = NoXml
    /\ sitemapUrls = <<>>
    /\ paths = <<>>
    /\ pathIndex = 0
    /\ results = <<>>

\* Issues that lists the failed checks only
RECURSIVE IssuesFailedOnly(_)
IssuesFailedOnly(cs) ==
    IF cs = <<>> THEN <<>>
    ELSE (IF cs[1].status = "fail" THEN <<cs[1].name>> ELSE <<>>)
             \o IssuesFailedOnly(Tail(cs))

\* validation.checks.filter(c => c.status !== 'pass').map(c => c.name)
RECURSIVE Issues(_)
Issues(cs) ==
    IF cs = <<>> THEN <<>>
    ELSE (IF cs[1].status # "pass" THEN <<cs[1].name>> ELSE <<>>) \o Issues(Tail(cs))

\* results.reduce((sum, r) => sum + r.score, 0)
RECURSIVE SumScores(_)
SumScores(rs) == IF rs = <<>> THEN 0 ELSE rs[1].score + SumScores(Tail(rs))

\* Math.round(sum / length) for integers sum >= 0: 0 / 0 is NaN; otherwise the
\* quotient of two small integers is a double on the same side of every half
\* as the exact quotient, and Math.round rounds a half up
MathRoundMean(sum, length) ==
    IF length = 0 THEN NaN ELSE (2 * sum + length) \div (2 * length)

\* audit.ts line 67: const fullUrl
FullUrl(path) ==
    IF StartsWithHttp(path) THEN path
    ELSE base \o (IF StartsWithSlash(path) THEN <<>> ELSE <<"/">>) \o path

\* audit.ts lines 117-123: const inventory
InventoryOf(rs) ==
    Inventory(base, Len(rs), MathRoundMean(SumScores(rs), Len(rs)), rs)

----------------------------------------------------------------------------
(* findSitemap and parseSitemap *)

RobotsRequest(origin) == [kind |-> "robots", url |-> origin \o <<"/", "robots.txt">>]
SitemapRequest(url) == [kind |-> "sitemap", url |-> url]

\* audit.ts lines 136-140
DefaultLocations ==
    << <<"/", "sitemap.xml">>, <<"/", "sitemap_index.xml">>, <<"/", "sitemap-index.xml">> >>

\* new URL(s, origin) does not throw: a value with a scheme must have a host;
\* any other value is a path relative to origin
URLParsesWithBase(s) == (s # <<>> /\ s[1] = "https://") => URLParses(s)

\* new URL(s, origin).pathname
PathnameWithBase(s) ==
    IF s # <<>> /\ s[1] = "https://" THEN PathnameOf(s)
    ELSE IF StartsWithSlash(s) THEN s
    ELSE <<"/">> \o s

\* lines 148-150 with the directive appended instead of unshifted
SitemapLocationsAppended(locs, match) ==
    IF match.found /\ URLParsesWithBase(match.s)
    THEN Append(locs, PathnameWithBase(match.s))
    ELSE locs

\* lines 147-153: sitemapLocations after robots.txt was read; new URL throws
\* inside the try and the catch ignores it
SitemapLocationsWith(locs, match) ==
    IF match.found /\ URLParsesWithBase(match.s)
    THEN <<PathnameWithBase(match.s)>> \o locs
    ELSE locs

\* parseSitemap: the <loc> of every <url> entry; a sitemap index is only logged
parseSitemap(doc) == [i \in 1..Len(doc.urls) |-> [loc |-> doc.urls[i]]]

\* the Sitemap: values of a robots.txt: an absolute URL, a relative one, a
\* default location, and a scheme without a host
DirectiveValues ==
    {<<"https://", "x.com", "/", "custom.xml">>, <<"custom.xml">>,
     <<"/", "sitemap.xml">>, <<"https://">>}

RobotsTxts == {NoMatch} \cup {Match(v) : v \in DirectiveValues}

\* the <loc> values of a sitemap: absolute URLs, a relative path, and the
\* letters http followed by more letters
Locs ==
    {<<"https://", "x.com", "/">>, <<"https://", "x.com", "/", "a">>,
     <<"/", "a">>, <<"http", "a">>}

Xmls ==
    {Xml(FALSE, urls, <<>>) : urls \in UNION {[1..n -> Locs] : n \in 0..MaxPages}}
    \cup {Xml(TRUE, <<>>, << <<"https://", "x.com", "/", "child.xml">> >>)}

\* a sitemap without <url> entries, a sitemap index, a sitemap of one page
SmallXmls ==
    {Xml(FALSE, <<>>, <<>>),
     Xml(TRUE, <<>>, << <<"https://", "x.com", "/", "child.xml">> >>),
     Xml(FALSE, << <<"https://", "x.com", "/">> >>, <<>>)}

\* The first command of a session meets any robots.txt; a later one meets a
\* robots.txt without directive.
ServedRobots == IF runs = 1 THEN RobotsTxts ELSE {NoMatch}

\* The first command of a session is served any sitemap at /sitemap.xml when
\* that is the first location, and a small sitemap at any other location; a
\* later command is served a small sitemap.
ServedXmls ==
    IF runs = 1 /\ locIndex = 1 /\ sitemapLocations = DefaultLocations
    THEN Xmls ELSE SmallXmls

----------------------------------------------------------------------------
(* auditSite, called by `og audit <url>` *)

\* the local variables of a validateOG call
validateLocals == <<vpc, targetUrl, tags, checks, buffer, pageError, result>>

\* lines 66-73: one iteration of `for (const path of paths)` up to the await
\* of validateOG(fullUrl).  new URL(fullUrl) of line 68 stands before the try:
\* when it throws, auditSite rejects, main() rejects and the process ends
\* with status 1.
AuditPage(ps, i) ==
    LET fullUrl == FullUrl(ps[i]) IN
    /\ pathIndex' = i
    /\ IF URLParses(fullUrl)
       THEN /\ CallValidateOG(fullUrl)
            /\ pc' = "validating"
            /\ UNCHANGED exitCode
       ELSE /\ pc' = "crashed"
            /\ exitCode' = 1
            /\ inflight' = {}
            /\ UNCHANGED <<validateLocals, netLog>>

\* lines 56-73: the paths are known; without any, auditSite returns
AuditPaths(ps) ==
    /\ paths' = ps
    /\ results' = <<>>
    /\ IF Len(ps) = 0
       THEN /\ pc' = "exited"
            /\ exitCode' = 0
            /\ pathIndex' = 0
            /\ inflight' = {}
            /\ UNCHANGED <<validateLocals, netLog>>
       ELSE AuditPage(ps, 1)

\* lines 41-54: findSitemap has returned urls; without any URL the paths are
\* asked for
FindSitemapReturns(urls) ==
    /\ sitemapUrls' = urls
    /\ UNCHANGED locIndex
    /\ IF Len(urls) > 0
       THEN AuditPaths([i \in 1..Len(urls) |-> urls[i].loc])
       ELSE /\ pc' = "prompt"
            /\ inflight' = {}
            /\ UNCHANGED <<exitCode, paths, pathIndex, results, validateLocals, netLog>>

\* lines 156-158: fetch(`${origin}${loc}`) for the i-th location
FetchCandidate(locs, i) ==
    /\ locIndex' = i
    /\ pc' = "sitemap"
    /\ inflight' = {SitemapRequest(base \o locs[i])}
    /\ netLog' = Append(netLog, SitemapRequest(base \o locs[i]))
    /\ UNCHANGED <<exitCode, sitemapUrls, paths, pathIndex, results, validateLocals>>

\* NextCandidate that gives up at the first location that fails
NextCandidateGivesUp == FindSitemapReturns(<<>>)

\* lines 156-168: the next iteration of the loop, or return []
NextCandidate ==
    IF locIndex < Len(sitemapLocations)
    THEN FetchCandidate(sitemapLocations, locIndex + 1)
    ELSE FindSitemapReturns(<<>>)

\* the url argument of og audit
AuditArgs ==
    {<<>>, <<"x.com">>, <<"https://", "x.com", "/", "a">>, <<"http", "x.com">>}

\* part_002 lines 105-112 and audit.ts lines 33-41, 135-144: without url the
\* process exits with 1; new URL(url) may throw; otherwise robots.txt is
\* requested
AuditCommand ==
    /\ cmd = "audit"
    /\ pc = "start"
    /\ \E baseUrl \in AuditArgs :
        LET url == IF StartsWithHttp(baseUrl) THEN baseUrl ELSE <<"https://">> \o baseUrl IN
        IF baseUrl = <<>>
        THEN /\ exitCode' = 1
             /\ pc' = "exited"
             /\ UNCHANGED <<base, sitemapLocations, inflight, netLog>>
        ELSE IF ~URLParses(url)
        THEN /\ exitCode' = 1
             /\ pc' = "crashed"
             /\ UNCHANGED <<base, sitemapLocations, inflight, netLog>>
        ELSE /\ base' = OriginOf(url)
             /\ sitemapLocations' = DefaultLocations
             /\ pc' = "robots"
             /\ inflight' = {RobotsRequest(OriginOf(url))}
             /\ netLog' = Append(netLog, RobotsRequest(OriginOf(url)))
             /\ UNCHANGED exitCode
    /\ UNCHANGED <<cmd, runs, inventoryFile, locIndex, sitemapMatch, xml, sitemapUrls,
                   paths, pathIndex, results, validateLocals>>

\* fetch of robots.txt rejects: the catch of lines 152-154
RobotsFetchFails ==
    /\ cmd = "audit"
    /\ pc = "robots"
    /\ FetchCandidate(sitemapLocations, 1)
    /\ UNCHANGED <<cmd, runs, inventoryFile, base, sitemapLocations, sitemapMatch, xml>>

\* the response is not ok: line 145
RobotsFetchNotOk ==
    /\ cmd = "audit"
    /\ pc = "robots"
    /\ FetchCandidate(sitemapLocations, 1)
    /\ UNCHANGED <<cmd, runs, inventoryFile, base, sitemapLocations, sitemapMatch, xml>>

\* the response is ok: await robotsRes.text()
RobotsFetchOk ==
    /\ cmd = "audit"
    /\ pc = "robots"
    /\ pc' = "robotsText"
    /\ UNCHANGED <<cmd, exitCode, auditVars, validateVars>>

\* robotsRes.text() rejects: the catch of lines 152-154
RobotsTextFails ==
    /\ cmd = "audit"
    /\ pc = "robotsText"
    /\ FetchCandidate(sitemapLocations, 1)
    /\ UNCHANGED <<cmd, runs, inventoryFile, base, sitemapLocations, sitemapMatch, xml>>

\* robotsRes.text() resolves: lines 147-158
RobotsTextOk ==
    /\ cmd = "audit"
    /\ pc = "robotsText"
    /\ \E match \in ServedRobots :
        LET locs == SitemapLocationsWith(sitemapLocations, match) IN
        /\ sitemapMatch' = match
        /\ sitemapLocations' = locs
        /\ FetchCandidate(locs, 1)
    /\ UNCHANGED <<cmd, runs, inventoryFile, base, xml>>

\* fetch of a sitemap location rejects: the catch of lines 163-165
SitemapFetchFails ==
    /\ cmd = "audit"
    /\ pc = "sitemap"
    /\ NextCandidate
    /\ UNCHANGED <<cmd, runs, inventoryFile, base, sitemapLocations, sitemapMatch, xml>>

\* the response is not ok: line 159
SitemapFetchNotOk ==
    /\ cmd = "audit"
    /\ pc = "sitemap"
    /\ NextCandidate
    /\ UNCHANGED <<cmd, runs, inventoryFile, base, sitemapLocations, sitemapMatch, xml>>

\* the response is ok: await res.text()
SitemapFetchOk ==
    /\ cmd = "audit"
    /\ pc = "sitemap"
    /\ pc' = "sitemapText"
    /\ UNCHANGED <<cmd, exitCode, auditVars, validateVars>>

\* res.text() rejects: the catch of lines 163-165
SitemapTextFails ==
    /\ cmd = "audit"
    /\ pc = "sitemapText"
    /\ NextCandidate
    /\ UNCHANGED <<cmd, runs, inventoryFile, base, sitemapLocations, sitemapMatch, xml>>

\* res.text() resolves: lines 160-161, parseSitemap, and auditSite from line 43
SitemapTextOk ==
    /\ cmd = "audit"
    /\ pc = "sitemapText"
    /\ \E doc \in ServedXmls :
        /\ xml' = doc
        /\ FindSitemapReturns(parseSitemap(doc))
    /\ UNCHANGED <<cmd, runs, inventoryFile, base, sitemapLocations, sitemapMatch>>

\* answer.split(','): the pieces between the commas; piece collects the
\* tokens since the last comma
RECURSIVE Split(_, _)
Split(s, piece) ==
    IF s = <<>> THEN <<piece>>
    ELSE IF Head(s) = "," THEN <<piece>> \o Split(Tail(s), <<>>)
    ELSE Split(Tail(s), Append(piece, Head(s)))

\* p.trim(), " " being a run of white space
RECURSIVE Trim(_)
Trim(s) ==
    IF s # <<>> /\ Head(s) = " " THEN Trim(Tail(s))
    ELSE IF s # <<>> /\ s[Len(s)] = " " THEN Trim(SubSeq(s, 1, Len(s) - 1))
    ELSE s

\* PathsOfAnswer without the trim of each piece
PathsOfAnswerUntrimmed(answer) ==
    IF Trim(answer) = <<>> THEN << <<"/">> >>
    ELSE LET pieces == Split(answer, <<>>)
             ps     == SelectSeq(pieces, LAMBDA p : p # <<>>)
         IN  IF Len(ps) > 0 THEN ps ELSE << <<"/">> >>

\* PathsOfAnswer without the fallback to the homepage: the pieces that are
\* left, none included
PathsOfAnswerNoFallback(answer) ==
    LET pieces  == Split(answer, <<>>)
        trimmed == [i \in 1..Len(pieces) |-> Trim(pieces[i])]
    IN  SelectSeq(trimmed, LAMBDA p : p # <<>>)

\* getPathsFromUser, lines 207-212: the paths of an answer
PathsOfAnswer(answer) ==
    IF Trim(answer) = <<>> THEN << <<"/">> >>
    ELSE LET pieces  == Split(answer, <<>>)
             trimmed == [i \in 1..Len(pieces) |-> Trim(pieces[i])]
             ps      == SelectSeq(trimmed, LAMBDA p : p # <<>>)
         IN  IF Len(ps) > 0 THEN ps ELSE << <<"/">> >>

\* what the user types at the prompt
Answers ==
    {<<>>, <<" ">>, <<",">>, <<"/", "a">>, <<"/", ",", " ", "a", " ">>,
     <<"a", ",", ",", "http", "a">>}

\* the first command of a session is given any answer, a later one the empty
\* answer or one path
ServedAnswers == IF runs = 1 THEN Answers ELSE {<<>>, <<"/", "a">>}

\* the answer to rl.question arrives: lines 204-213, then auditSite from
\* line 56
PromptAnswer ==
    /\ cmd = "audit"
    /\ pc = "prompt"
    /\ \E answer \in ServedAnswers : AuditPaths(PathsOfAnswer(answer))
    /\ UNCHANGED <<cmd, runs, inventoryFile, base, findVars, sitemapUrls>>

\* AuditPageDone with the inventory saved after every page
AuditPageDoneSavesEachPage ==
    /\ cmd = "audit"
    /\ pc = "validating"
    /\ vpc = "returned"
    /\ LET fullUrl == FullUrl(paths[pathIndex])
           rs == Append(results,
                        AuditResult(fullUrl, PathnameOf(fullUrl), result.score,
                                    Issues(result.checks)))
       IN  /\ results' = rs
           /\ inventoryFile' = InventoryOf(rs)
           /\ IF pathIndex < Len(paths)
              THEN AuditPage(paths, pathIndex + 1)
              ELSE /\ pc' = "exited"
                   /\ exitCode' = 0
                   /\ UNCHANGED <<pathIndex, validateVars>>
    /\ UNCHANGED <<cmd, runs, base, findVars, sitemapUrls, paths>>

\* validateOG(fullUrl) has returned: lines 75-103, then the next iteration,
\* or lines 117-125 after the last one; main returns and the process ends.
\* validateOG returns a result for every outcome of its requests, so the
\* catch of lines 105-113 is entered by no step.
AuditPageDone ==
    /\ cmd = "audit"
    /\ pc = "validating"
    /\ vpc = "returned"
    /\ LET fullUrl == FullUrl(paths[pathIndex])
           rs == Append(results,
                        AuditResult(fullUrl, PathnameOf(fullUrl), result.score,
                                    Issues(result.checks)))
       IN  /\ results' = rs
           /\ IF pathIndex < Len(paths)
              THEN /\ AuditPage(paths, pathIndex + 1)
                   /\ UNCHANGED inventoryFile
              ELSE /\ inventoryFile' = InventoryOf(rs)
                   /\ pc' = "exited"
                   /\ exitCode' = 0
                   /\ UNCHANGED <<pathIndex, validateVars>>
    /\ UNCHANGED <<cmd, runs, base, findVars, sitemapUrls, paths>>

----------------------------------------------------------------------------
(* og init <paths...> *)

\* the arguments after `init`
InitArgs ==
    {<<>>, << <<"/">> >>, << <<"a">> >>, << <<"/", "a">>, <<"/", "b">> >>,
     << <<"b">>, <<"/", "b">> >>}

\* part_002 lines 234-240: the inventory when the file cannot be read
FreshInventory == Inventory(<<"local">>, 0, 0, <<>>)

\* InitPages without the test of line 245: every path is added
RECURSIVE InitPagesAddsAll(_, _)
InitPagesAddsAll(pages, ps) ==
    IF ps = <<>> THEN pages
    ELSE LET path == Head(ps)
             normalizedPath == IF StartsWithSlash(path) THEN path ELSE <<"/">> \o path
         IN  InitPagesAddsAll(
                 Append(pages, AuditResult(<<"local://">> \o normalizedPath,
                                           normalizedPath, 0, <<"Not audited yet">>)),
                 Tail(ps))

\* part_002 lines 243-253: the pages after the paths ps were added
RECURSIVE InitPages(_, _)
InitPages(pages, ps) ==
    IF ps = <<>> THEN pages
    ELSE LET path == Head(ps)
             normalizedPath == IF StartsWithSlash(path) THEN path ELSE <<"/">> \o path
         IN  InitPages(
                 IF \E i \in 1..Len(pages) : pages[i].path = normalizedPath
                 THEN pages
                 ELSE Append(pages, AuditResult(<<"local://">> \o normalizedPath,
                                                normalizedPath, 0,
                                                <<"Not audited yet">>)),
                 Tail(ps))

\* part_002 lines 210-231: without paths the usage is printed and the process
\* exits with 0; otherwise the file is read
InitCommand ==
    /\ cmd = "init"
    /\ pc = "start"
    /\ \E args \in InitArgs :
        /\ paths' = args
        /\ IF Len(args) = 0
           THEN pc' = "exited" /\ exitCode' = 0
           ELSE pc' = "readFile" /\ UNCHANGED exitCode
    /\ UNCHANGED <<cmd, runs, inventoryFile, base, findVars, sitemapUrls, pathIndex,
                   results, validateVars>>

\* part_002 lines 230-262: the file was read, or not; the paths are added,
\* totalPages is set, the file is written and main returns
InitInventory ==
    /\ cmd = "init"
    /\ pc = "readFile"
    /\ LET inventory == IF inventoryFile.exists THEN inventoryFile ELSE FreshInventory
           pages == InitPages(inventory.pages, paths)
       IN  inventoryFile' = [inventory EXCEPT !.pages = pages, !.totalPages = Len(pages)]
    /\ pc' = "exited"
    /\ exitCode' = 0
    /\ UNCHANGED <<cmd, runs, base, findVars, sitemapUrls, paths, pathIndex, results,
                   validateVars>>

----------------------------------------------------------------------------
(* og validate <url> *)

\* the url argument: none, a host, a URL
ValidateArgs ==
    {<<>>, <<"x.com">>, <<"x.com", "/", "a">>, <<"https://", "x.com">>,
     <<"https://", "x.com", "/", "a">>, <<"http", "x.com">>}

\* part_002 lines 84-95: no url exits with 1; otherwise validateOG is called
ValidateCommand ==
    /\ cmd = "validate"
    /\ pc = "start"
    /\ \E url \in ValidateArgs :
        IF url = <<>>
        THEN /\ exitCode' = 1
             /\ pc' = "exited"
             /\ UNCHANGED validateVars
        ELSE /\ CallValidateOG(IF StartsWithHttp(url) THEN url ELSE <<"https://">> \o url)
             /\ pc' = "validating"
             /\ UNCHANGED exitCode
    /\ UNCHANGED <<cmd, auditVars>>

\* ValidateExit with the threshold of the green score, 80
ValidateExitAt80 ==
    /\ cmd = "validate"
    /\ pc = "validating"
    /\ vpc = "returned"
    /\ exitCode' = IF result.score >= 80 THEN 0 ELSE 1
    /\ pc' = "exited"
    /\ UNCHANGED <<cmd, auditVars, validateVars>>

\* part_002 lines 96-97: process.exit(result.score >= 70 ? 0 : 1)
ValidateExit ==
    /\ cmd = "validate"
    /\ pc = "validating"
    /\ vpc = "returned"
    /\ exitCode' = IF result.score >= 70 THEN 0 ELSE 1
    /\ pc' = "exited"
    /\ UNCHANGED <<cmd, auditVars, validateVars>>

----------------------------------------------------------------------------
(* A session: og audit, og init and og validate commands run one after the   *)
(* other in one directory                                                    *)

\* part_002 line 73 and the last line, main(): a new process starts
Invoke ==
    /\ pc \in {"shell", "exited", "crashed"}
    /\ runs < MaxRuns
    /\ \E command \in {"audit", "init", "validate"} : cmd' = command
    /\ pc' = "start"
    /\ exitCode' = NotExited
    /\ runs' = runs + 1
    /\ base' = <<>>
    /\ sitemapLocations' = <<>>
    /\ locIndex' = 0
    /\ sitemapMatch' = NoMatch
    /\ xml' = NoXml
    /\ sitemapUrls' = <<>>
    /\ paths' = <<>>
    /\ pathIndex' = 0
    /\ results' = <<>>
    /\ vpc' = "idle"
    /\ targetUrl' = <<>>
    /\ tags' = NoTags
    /\ checks' = <<>>
    /\ buffer' = NoBuffer
    /\ pageError' = "none"
    /\ result' = NoResult
    /\ inflight' = {}
    /\ netLog' = <<>>
    /\ UNCHANGED inventoryFile

InitAudit ==
    /\ cmd = "none"
    /\ pc = "shell"
    /\ exitCode = NotExited
    /\ runs = 0
    /\ inventoryFile = NoFile
    /\ NoAudit
    /\ vpc = "idle"
    /\ targetUrl = <<>>
    /\ tags = NoTags
    /\ checks = <<>>
    /\ buffer = NoBuffer
    /\ pageError = "none"
    /\ result = NoResult
    /\ inflight = {}
    /\ netLog = <<>>

NextAudit ==
    \/ Invoke
    \/ AuditCommand
    \/ RobotsFetchFails
    \/ RobotsFetchNotOk
    \/ RobotsFetchOk
    \/ RobotsTextFails
    \/ RobotsTextOk
    \/ SitemapFetchFails
    \/ SitemapFetchNotOk
    \/ SitemapFetchOk
    \/ SitemapTextFails
    \/ SitemapTextOk
    \/ PromptAnswer
    \/ ValidateOGStep
    \/ AuditPageDone
    \/ InitCommand
    \/ InitInventory
    \/ ValidateCommand
    \/ ValidateExit

SpecAudit == InitAudit /\ [][NextAudit]_vars

----------------------------------------------------------------------------
(* A run of og validate *)

InitValidate ==
    /\ cmd = "validate"
    /\ pc = "start"
    /\ exitCode = NotExited
    /\ runs = 0
    /\ inventoryFile = NoFile
    /\ NoAudit
    /\ vpc = "idle"
    /\ targetUrl = <<>>
    /\ tags = NoTags
    /\ checks = <<>>
    /\ buffer = NoBuffer
    /\ pageError = "none"
    /\ result = NoResult
    /\ inflight = {}
    /\ netLog = <<>>

NextValidate ==
    \/ ValidateCommand
    \/ ValidateOGStep
    \/ ValidateExit

SpecValidate == InitValidate /\ [][NextValidate]_vars

----------------------------------------------------------------------------
(* Inputs of calculateScore as a pure function *)

AllChecks == {Check(n, s, FALSE) : n \in CheckNames, s \in Statuses}

ShortInputs == UNION {[1..n -> AllChecks] : n \in 0..MaxChecks}

Repeat(c, k) == [i \in 1..k |-> c]

\* the heaviest and a lightest check of the table, in every status
RunChecks == {Check(n, s, FALSE) : n \in {"og:image", "twitter:card"}, s \in Statuses}

LongInputs ==
    {Repeat(c1, k1) \o Repeat(c2, k2) \o Repeat(c3, k3) :
        c1 \in RunChecks, c2 \in RunChecks, c3 \in RunChecks,
        k1 \in 0..MaxRepeat, k2 \in 0..MaxRun, k3 \in 0..MaxRun}

ScoreInputs == ShortInputs \cup LongInputs

\* validateOG, lines 85-93: const score = calculateScore(checks); return {...}
ReturnScore ==
    /\ cmd = "score"
    /\ pc = "score"
    /\ result' = [url |-> targetUrl, score |-> calculateScore(checks),
                  maxScore |-> 100, checks |-> checks]
    /\ pc' = "returned"
    /\ UNCHANGED <<cmd, exitCode, auditVars, vpc, targetUrl, tags, checks, buffer,
                   pageError, inflight, netLog>>

InitScore ==
    /\ cmd = "score"
    /\ pc = "score"
    /\ exitCode = NotExited
    /\ runs = 1
    /\ inventoryFile = NoFile
    /\ NoAudit
    /\ vpc = "idle"
    /\ targetUrl = <<"https://", "x.com">>
    /\ tags = NoTags
    /\ checks \in ScoreInputs
    /\ buffer = NoBuffer
    /\ pageError = "none"
    /\ result = NoResult
    /\ inflight = {}
    /\ netLog = <<>>

NextScore == ReturnScore

SpecScore == InitScore /\ [][NextScore]_vars

----------------------------------------------------------------------------
(* Properties of calculateScore (SpecScore) *)

Scored == cmd = "score" /\ pc = "returned"

\* the weight table as the specification states it
StatedWeight(name) ==
    CASE name \in {"og:title", "og:description", "og:image accessible"} -> 15
      [] name = "og:image" -> 20
      [] name \in {"og:image size", "og:image dimensions"} -> 10
      [] OTHER -> 5

\* twice the credit of a check: full weight on pass, half on warn, none on fail
StatedCredit2(c) ==
    CASE c.status = "pass" -> 2 * StatedWeight(c.name)
      [] c.status = "warn" -> StatedWeight(c.name)
      [] c.status = "fail" -> 0

RECURSIVE Possible(_)
Possible(cs) ==
    IF cs = <<>> THEN 0
    ELSE Possible(SubSeq(cs, 1, Len(cs) - 1)) + StatedWeight(cs[Len(cs)].name)

RECURSIVE Earned2(_)
Earned2(cs) ==
    IF cs = <<>> THEN 0
    ELSE Earned2(SubSeq(cs, 1, Len(cs) - 1)) + StatedCredit2(cs[Len(cs)])

\* round(a / b) for a >= 0, b > 0, a half rounded up
Round(a, b) == (2 * a + b) \div (2 * b)

AllOf(cs, s) == \A i \in 1..Len(cs) : cs[i].status = s

\* C1: for every sequence of checks, the empty one included, calculateScore
\* returns an integer score with 0 <= score <= 100.
C1_ScoreInRange == Scored => result.score \in 0..100

\* C2 as stated: for every non-empty check sequence the score is 100 iff every
\* check is pass, and 0 iff every check is fail.
C2_ExtremesIffUniform ==
    (Scored /\ checks # <<>>) =>
        /\ (result.score = 100) <=> AllOf(checks, "pass")
        /\ (result.score = 0) <=> AllOf(checks, "fail")

\* C2 amended: for every non-empty check sequence whose total weight is below
\* 500 the score is 100 iff every check is pass, and 0 iff every check is fail.
C2_ExtremesIffUniformBelow500 ==
    (Scored /\ checks # <<>> /\ Possible(checks) < 500) =>
        /\ (result.score = 100) <=> AllOf(checks, "pass")
        /\ (result.score = 0) <=> AllOf(checks, "fail")

\* a total weight just below 500 with a single warn among passes: scored 99
C2_Witness ==
    /\ Scored
    /\ Possible(checks) \in 400..499
    /\ \E i \in 1..Len(checks) : checks[i].status = "warn"
    /\ \A i \in 1..Len(checks) : checks[i].status \in {"pass", "warn"}
    /\ result.score = 99

\* C3: the score is round(100 * earned / possible), with the stated weights
\* and credits summed over the checks present.
C3_ScoreIsRoundedRatio ==
    (Scored /\ Possible(checks) > 0) =>
        result.score = Round(100 * Earned2(checks), 2 * Possible(checks))

----------------------------------------------------------------------------
(* Properties of validateOG (SpecValidate) *)

\* validateOG has returned
Returned == vpc = "returned"

\* validateOG has returned the result of a page it fetched and read
ReturnedFetched == Returned /\ pageError = "none"

HasCheck(cs, name) == \E i \in 1..Len(cs) : cs[i].name = name

\* the first check of that name
TheCheck(cs, name) == cs[CHOOSE i \in 1..Len(cs) :
                            /\ cs[i].name = name
                            /\ \A j \in 1..(i - 1) : cs[j].name # name]

StatusOf(cs, name) == TheCheck(cs, name).status

\* C4: when the page fetch fails, the result has score 0, maxScore 100 and the
\* single check "URL Accessible" with status fail; no tag is extracted, no
\* image is requested and no other check is made.
C4_FetchFailureResult ==
    (Returned /\ pageError # "none") =>
        /\ result.score = 0
        /\ result.maxScore = 100
        /\ Len(result.checks) = 1
        /\ result.checks[1].name = "URL Accessible"
        /\ result.checks[1].status = "fail"
        /\ tags = NoTags
        /\ checks = <<>>
        /\ ~buffer.read
        /\ \A i \in 1..Len(netLog) : netLog[i].kind # "image"

\* a page answered with a status that is not 2xx
C4_Witness == Returned /\ pageError = "http" /\ result.url = targetUrl

\* the length policy of C9 for a check c of a tag t: fail iff the tag is
\* absent; when present, warn iff the length is below lo or above hi, pass
\* otherwise; a pass carries a recommendation iff the length is outside
\* optLo..optHi
LengthPolicy(c, t, lo, hi, optLo, optHi) ==
    /\ (c.status = "fail") <=> ~t.present
    /\ t.present =>
        /\ (c.status = "warn") <=> (t.len < lo \/ t.len > hi)
        /\ (c.status = "pass") <=> ~(t.len < lo \/ t.len > hi)
        /\ (c.status = "pass") => (c.rec <=> ~(t.len >= optLo /\ t.len <= optHi))

\* C9: the og:title check is fail iff the tag is absent (an empty value is
\* present); a present value is warn iff its length is < 30 or > 90 and pass
\* otherwise, with a recommendation on a pass outside 50-60 only;
\* og:description likewise with 70 / 200 and 110-160.
C9_LengthPolicy ==
    ReturnedFetched =>
        /\ LengthPolicy(TheCheck(result.checks, "og:title"), tags.title, 30, 90, 50, 60)
        /\ LengthPolicy(TheCheck(result.checks, "og:description"), tags.description,
                        70, 200, 110, 160)

\* C10: on a fetched page a missing og:title, og:description or og:image gives
\* a fail check for that field, a missing og:url or twitter:card gives a warn
\* check and never a fail; twitter:card is pass exactly for summary,
\* summary_large_image, app and player, and warn for any other value.
C10_MissingFields ==
    ReturnedFetched =>
        /\ ~tags.title.present => StatusOf(result.checks, "og:title") = "fail"
        /\ ~tags.description.present =>
               StatusOf(result.checks, "og:description") = "fail"
        /\ ~tags.image.present =>
               /\ HasCheck(result.checks, "og:image")
               /\ StatusOf(result.checks, "og:image") = "fail"
        /\ ~tags.url.present => StatusOf(result.checks, "og:url") = "warn"
        /\ ~tags.twitterCard.present =>
               StatusOf(result.checks, "twitter:card") = "warn"
        /\ \A i \in 1..Len(result.checks) :
               result.checks[i].name \in {"og:url", "twitter:card"} =>
                   result.checks[i].status # "fail"
        /\ tags.twitterCard.present =>
               StatusOf(result.checks, "twitter:card") =
                   IF tags.twitterCard.s \in
                          {"summary", "summary_large_image", "app", "player"}
                   THEN "pass" ELSE "warn"

\* the page without any meta tag
C10_Witness == ReturnedFetched /\ tags = NoTags /\ Len(result.checks) = 5

----------------------------------------------------------------------------
(* Properties of og audit and og init (SpecAudit) *)

\* the sum of the scores of the pages ps
RECURSIVE ScoreSum(_)
ScoreSum(ps) ==
    IF ps = <<>> THEN 0 ELSE ScoreSum(SubSeq(ps, 1, Len(ps) - 1)) + ps[Len(ps)].score

\* C5: after any sequence of og audit and og init commands the inventory file
\* has totalPages = len(pages) and averageScore = round(mean of the scores of
\* its pages).
C5_InventoryAggregates ==
    (inventoryFile.exists /\ inventoryFile.pages # <<>>) =>
        /\ inventoryFile.totalPages = Len(inventoryFile.pages)
        /\ inventoryFile.averageScore =
               Round(ScoreSum(inventoryFile.pages), Len(inventoryFile.pages))

\* C6: an audit that has its list of paths ends with one AuditResult per path,
\* in the order of the list, and with the inventory written; no page aborts
\* the run.
C6_OneResultPerPath ==
    (cmd = "audit" /\ pc \in {"exited", "crashed"} /\ paths # <<>>) =>
        /\ pc = "exited"
        /\ Len(results) = Len(paths)
        /\ \A i \in 1..Len(results) :
               results[i].url =
                   (IF paths[i][1] \in {"https://", "http"} THEN paths[i]
                    ELSE IF paths[i][1] = "/" THEN base \o paths[i]
                    ELSE base \o <<"/">> \o paths[i])
        /\ inventoryFile.exists
        /\ inventoryFile.pages = results

\* the URLs of the sitemap locations requested so far, in order
SitemapFetched ==
    LET rs == SelectSeq(netLog, LAMBDA r : r.kind = "sitemap")
    IN  [i \in 1..Len(rs) |-> rs[i].url]

IsPrefix(s, t) == Len(s) <= Len(t) /\ \A i \in 1..Len(s) : s[i] = t[i]

\* the three default locations at the audited origin, in the stated order
StatedDefaults ==
    << base \o <<"/", "sitemap.xml">>, base \o <<"/", "sitemap_index.xml">>,
       base \o <<"/", "sitemap-index.xml">> >>

\* robots.txt is the first request of an audit and is requested once
RobotsFirst ==
    /\ netLog[1].kind = "robots"
    /\ netLog[1].url = base \o <<"/", "robots.txt">>
    /\ \A i \in 2..Len(netLog) : netLog[i].kind # "robots"

\* C7 as stated: robots.txt is fetched before any sitemap location; when it
\* has a Sitemap: directive the path of the directive is fetched first, then
\* /sitemap.xml, /sitemap_index.xml, /sitemap-index.xml in that order; without
\* directive exactly the three defaults are tried in that order.
C7_DirectiveFirst ==
    (cmd = "audit" /\ netLog # <<>>) =>
        /\ RobotsFirst
        /\ sitemapMatch.found =>
               \/ SitemapFetched = <<>>
               \/ /\ URLParsesWithBase(sitemapMatch.s)
                  /\ IsPrefix(SitemapFetched,
                              <<base \o PathnameWithBase(sitemapMatch.s)>> \o StatedDefaults)
        /\ ~sitemapMatch.found => IsPrefix(SitemapFetched, StatedDefaults)

\* C7 amended: the path of a directive is fetched first when the value of the
\* directive parses as a URL; a directive whose value does not parse is
\* ignored and exactly the three defaults are tried.
C7_DirectiveFirstWhenParsed ==
    (cmd = "audit" /\ netLog # <<>>) =>
        /\ RobotsFirst
        /\ IF sitemapMatch.found /\ URLParsesWithBase(sitemapMatch.s)
           THEN IsPrefix(SitemapFetched,
                         <<base \o PathnameWithBase(sitemapMatch.s)>> \o StatedDefaults)
           ELSE IsPrefix(SitemapFetched, StatedDefaults)

\* the directive's path failed, and so did the defaults after it
C7_Witness ==
    /\ cmd = "audit"
    /\ sitemapMatch = Match(<<"https://", "x.com", "/", "custom.xml">>)
    /\ Len(SitemapFetched) = 4
    /\ SitemapFetched[1] = <<"https://", "x.com", "/", "custom.xml">>
    /\ SitemapFetched[4] = <<"https://", "x.com", "/", "sitemap-index.xml">>

InDiscovery == cmd = "audit" /\ pc \in {"robots", "robotsText", "sitemap", "sitemapText"}

\* this step requests a sitemap location
RequestsSitemap ==
    \E i \in (Len(netLog) + 1)..Len(netLog') : netLog'[i].kind = "sitemap"

\* this step ends discovery with the URLs of the document just read
StopsWithDocument ==
    /\ xml'.read
    /\ Len(sitemapUrls') = Len(xml'.urls)
    /\ \A i \in 1..Len(sitemapUrls') : sitemapUrls'[i].loc = xml'.urls[i]
    /\ ~InDiscovery'
    /\ ~RequestsSitemap

\* this step skips the current location: the next one is requested, or
\* discovery ends with the empty sequence after the last one
SkipsLocation ==
    IF locIndex < Len(sitemapLocations)
    THEN /\ netLog' = Append(netLog, SitemapRequest(base \o sitemapLocations[locIndex + 1]))
         /\ locIndex' = locIndex + 1
         /\ pc' = "sitemap"
    ELSE /\ sitemapUrls' = <<>>
         /\ ~xml'.read
         /\ ~InDiscovery'
         /\ ~RequestsSitemap

\* C8 as stated: discovery stops at the first location whose fetch returns
\* HTTP success, with the URLs parsed from its document; no later location
\* and no child sitemap is fetched after it; a location whose fetch fails is
\* skipped; the result is empty when no location succeeds.
C8_StopsAtFirstSuccess ==
    [][ /\ (cmd = "audit" /\ pc = "sitemapText") => StopsWithDocument
        /\ (cmd = "audit" /\ pc = "sitemap" /\ pc' # "sitemapText") => SkipsLocation
        /\ ~InDiscovery => ~RequestsSitemap ]_vars

\* C8 amended: discovery stops at the first location whose fetch returns HTTP
\* success and whose body is read; a location whose fetch fails, or whose
\* body cannot be read, is skipped.
C8_StopsAtFirstDocument ==
    [][ /\ (cmd = "audit" /\ pc = "sitemapText" /\ xml'.read) => StopsWithDocument
        /\ (cmd = "audit" /\ pc = "sitemapText" /\ ~xml'.read) => SkipsLocation
        /\ (cmd = "audit" /\ pc = "sitemap" /\ pc' # "sitemapText") => SkipsLocation
        /\ ~InDiscovery => ~RequestsSitemap ]_vars

\* the second location answered with a sitemap index after the first failed
C8_Witness ==
    /\ cmd = "audit"
    /\ pc = "prompt"
    /\ locIndex = 2
    /\ xml.read
    /\ xml.sitemapindex
    /\ sitemapUrls = <<>>
    /\ Len(SitemapFetched) = 2

----------------------------------------------------------------------------
(* Properties of validateOG, continued (SpecValidate) *)

\* the size in KB of the image body read, rounded to the nearest integer
BodyKB == (2 * buffer.byteLength + 1024) \div 2048

\* a warn among the threshold checks carries a recommendation
ThresholdWarnsRecommend ==
    \A i \in 1..Len(result.checks) :
        (/\ result.checks[i].name \in {"og:title", "og:description", "og:image size",
                                        "og:image dimensions"}
         /\ result.checks[i].status = "warn") => result.checks[i].rec

\* C11 as stated: a present value that violates a threshold is a warn with a
\* recommendation and never a fail: og:title and og:description of a present
\* tag, og:image size and og:image dimensions never have status fail.
C11_OutOfRangeNeverFails ==
    ReturnedFetched =>
        /\ tags.title.present => StatusOf(result.checks, "og:title") # "fail"
        /\ tags.description.present =>
               StatusOf(result.checks, "og:description") # "fail"
        /\ \A i \in 1..Len(result.checks) :
               result.checks[i].name \in {"og:image size", "og:image dimensions"} =>
                   result.checks[i].status # "fail"
        /\ ThresholdWarnsRecommend

\* C11 amended: og:title and og:description of a tag with a non-empty value
\* and og:image dimensions never have status fail; og:image size has status
\* fail exactly when the image is larger than 600 KB; a warn of these checks
\* carries a recommendation.
C11_OutOfRangeWarnsButOversize ==
    ReturnedFetched =>
        /\ (tags.title.present /\ tags.title.len > 0) =>
               StatusOf(result.checks, "og:title") # "fail"
        /\ (tags.description.present /\ tags.description.len > 0) =>
               StatusOf(result.checks, "og:description") # "fail"
        /\ \A i \in 1..Len(result.checks) :
               /\ result.checks[i].name = "og:image dimensions" =>
                      result.checks[i].status # "fail"
               /\ result.checks[i].name = "og:image size" =>
                      (result.checks[i].status = "fail" <=> BodyKB > 600)
        /\ ThresholdWarnsRecommend

\* an image of 601 KB with non-standard dimensions
C11_Witness ==
    /\ ReturnedFetched
    /\ buffer.read
    /\ BodyKB = 601
    /\ HasCheck(result.checks, "og:image size")
    /\ StatusOf(result.checks, "og:image size") = "fail"
    /\ HasCheck(result.checks, "og:image dimensions")
    /\ StatusOf(result.checks, "og:image dimensions") = "warn"

\* the number of checks of cs with status s
CountStatus(cs, s) == Cardinality({i \in 1..Len(cs) : cs[i].status = s})

ImageSubChecks ==
    {"og:image URL", "og:image accessible", "og:image format", "og:image size",
     "og:image dimensions"}

\* validateOG has returned the result of a fetched page without any meta tag
ReturnedBare == ReturnedFetched /\ tags = NoTags

\* the score is computed over the weights of the checks present
ScoreOverPresent ==
    result.score = Round(100 * Earned2(result.checks), 2 * Possible(result.checks))

\* C12 as stated: a fetched page without any meta tag yields exactly four fail
\* checks and the two warn checks og:url and twitter:card, no image check
\* beyond og:image, and a score over the weights of the checks present.
C12_BarePageFourFails ==
    ReturnedBare =>
        /\ CountStatus(result.checks, "fail") = 4
        /\ CountStatus(result.checks, "warn") = 2
        /\ StatusOf(result.checks, "og:url") = "warn"
        /\ StatusOf(result.checks, "twitter:card") = "warn"
        /\ \A i \in 1..Len(result.checks) : result.checks[i].name \notin ImageSubChecks
        /\ ScoreOverPresent

\* C12 amended: the page yields exactly three fail checks, og:title,
\* og:description and og:image in that order, then the two warn checks og:url
\* and twitter:card; there is no og:image accessible check nor any other image
\* check, no image is requested, and the score is round(100 * 5 / 60) = 8.
C12_BarePageThreeFails ==
    ReturnedBare =>
        /\ Len(result.checks) = 5
        /\ CountStatus(result.checks, "fail") = 3
        /\ CountStatus(result.checks, "warn") = 2
        /\ [i \in 1..5 |-> result.checks[i].name] =
               <<"og:title", "og:description", "og:image", "og:url", "twitter:card">>
        /\ [i \in 1..5 |-> result.checks[i].status] =
               <<"fail", "fail", "fail", "warn", "warn">>
        /\ \A i \in 1..Len(netLog) : netLog[i].kind # "image"
        /\ ScoreOverPresent
        /\ result.score = 8

\* the bare page, scored
C12_Witness ==
    /\ ReturnedBare
    /\ result.score = 8
    /\ Len(netLog) = 1
    /\ ~buffer.read

----------------------------------------------------------------------------
(* Properties of og audit and og init, continued (SpecAudit) *)

\* a path with a leading slash
Normalized(p) == IF p # <<>> /\ p[1] = "/" THEN p ELSE <<"/">> \o p

PathsOf(pages) == {pages[i].path : i \in 1..Len(pages)}

\* the pages of the inventory the init command loads
LoadedPages == IF inventoryFile.exists THEN inventoryFile.pages ELSE <<>>

\* the step of og init that writes the inventory
InitWrites == cmd = "init" /\ pc = "readFile" /\ pc' = "exited"

\* what og init <paths> does to the inventory file in the step that writes it
InitFrame ==
    LET old   == LoadedPages
        new   == inventoryFile'.pages
        given == {Normalized(paths[i]) : i \in 1..Len(paths)}
        added == given \ PathsOf(old)
    IN  /\ inventoryFile'.exists
        /\ IsPrefix(old, new)
        /\ Len(new) = Len(old) + Cardinality(added)
        /\ \A i \in (Len(old) + 1)..Len(new) :
               /\ new[i].path \in added
               /\ new[i].score = 0
               /\ new[i].issues = <<"Not audited yet">>
               /\ \A j \in (Len(old) + 1)..Len(new) : new[j].path = new[i].path => j = i
        /\ inventoryFile'.totalPages = Len(new)
        /\ (given \subseteq PathsOf(old)) => new = old

\* C13: og init <paths...> loads the inventory or starts an empty one, appends
\* one page with score 0 and issues ["Not audited yet"] for each given path
\* whose normalized form is not yet the path of a page, leaves the pages it
\* found and their order unchanged, sets totalPages to the new number of pages
\* and saves; given paths that are all there already, it adds no page.
C13_InitAppendsOnlyNewPaths == [][InitWrites => InitFrame]_vars

\* og init has added a page after the page of an earlier audit
C13_Witness ==
    /\ cmd = "init"
    /\ pc = "exited"
    /\ inventoryFile.exists
    /\ Len(inventoryFile.pages) = 2
    /\ inventoryFile.pages[1].issues # <<"Not audited yet">>
    /\ inventoryFile.pages[2].issues = <<"Not audited yet">>
    /\ inventoryFile.totalPages = 2

\* the step in which an audit finishes its last page
AuditWrites == cmd = "audit" /\ pc = "validating" /\ pc' = "exited"

\* C14: a run of og audit writes the inventory file once, as one whole
\* document, in the step that finishes the last page; no other step of the
\* run changes the file, so a run that ends before its last page leaves the
\* file as it found it.
C14_InventoryWrittenOnceAtEnd ==
    [][(cmd = "audit" /\ runs' = runs) =>
           IF AuditWrites
           THEN /\ pathIndex = Len(paths)
                /\ Len(results') = Len(paths)
                /\ inventoryFile'.exists
                /\ inventoryFile'.pages = results'
                /\ inventoryFile'.totalPages = Len(paths)
           ELSE inventoryFile' = inventoryFile]_vars

\* an audit of two pages has written both of them
C14_Witness ==
    /\ cmd = "audit"
    /\ pc = "exited"
    /\ exitCode = 0
    /\ Len(paths) = 2
    /\ inventoryFile.exists
    /\ inventoryFile.pages = results
    /\ Len(results) = 2

\* an audit that has validated every one of its pages and has ended
AuditPersisted ==
    /\ cmd = "audit"
    /\ pc \in {"exited", "crashed"}
    /\ paths # <<>>
    /\ Len(results) = Len(paths)

\* a validate command that has ended after validateOG returned a result
ValidateEnded == cmd = "validate" /\ pc = "exited" /\ result # NoResult

\* C15: og validate exits with status 0 exactly when the score is at least 70
\* and with a non-zero status below 70, the score 0 of an unreachable URL
\* included; og audit, once it has saved the inventory, exits with status 0
\* whatever the scores of its pages.
C15_ExitStatus ==
    /\ ValidateEnded => /\ exitCode \in {0, 1}
                        /\ exitCode = 0 <=> result.score >= 70
    /\ AuditPersisted => /\ pc = "exited"
                         /\ exitCode = 0
                         /\ inventoryFile.exists
                         /\ inventoryFile.pages = results

\* og validate has exited with 1 for the score 0 of an unreachable URL, in a
\* directory where an audit has saved a page with a score below 70
C15_Witness ==
    /\ ValidateEnded
    /\ result.score = 0
    /\ exitCode = 1
    /\ inventoryFile.exists
    /\ inventoryFile.baseUrl # <<"local">>
    /\ \E i \in 1..Len(inventoryFile.pages) : inventoryFile.pages[i].score < 70

\* the positions that bound the comma-separated entries of an answer
Cuts(a) == {0, Len(a) + 1} \cup {i \in 1..Len(a) : a[i] = ","}

\* the k-th cut, counted from 0
NthCut(a, k) == CHOOSE c \in Cuts(a) : Cardinality({d \in Cuts(a) : d < c}) = k

\* s without the white space at its ends
Strip(s) ==
    LET ns == {i \in 1..Len(s) : s[i] # " "}
    IN  IF ns = {} THEN <<>>
        ELSE SubSeq(s, CHOOSE i \in ns : \A j \in ns : i <= j,
                       CHOOSE i \in ns : \A j \in ns : i >= j)

\* the trimmed, non-empty comma-separated entries of an answer
StatedEntries(a) ==
    LET n == Cardinality(Cuts(a)) - 1
        entry(k) == Strip(SubSeq(a, NthCut(a, k - 1) + 1, NthCut(a, k) - 1))
    IN  SelectSeq([k \in 1..n |-> entry(k)], LAMBDA e : e # <<>>)

\* the entries, or the homepage when there is none
StatedPaths(a) == IF StatedEntries(a) = <<>> THEN << <<"/">> >> ELSE StatedEntries(a)

\* before the paths of an audit are known
BeforePaths == cmd = "audit" /\ (pc \in {"start", "prompt"} \/ InDiscovery)

NonPass(cs) == {i \in 1..Len(cs) : cs[i].status # "pass"}

\* the k-th smallest element of a set of numbers
Nth(S, k) == CHOOSE i \in S : Cardinality({j \in S : j < i}) = k - 1

\* the names of the checks that did not pass, in the order of the checks
NonPassNames(cs) == [k \in 1..Cardinality(NonPass(cs)) |-> cs[Nth(NonPass(cs), k)].name]

\* the step of an audit that records the result of one page
RecordsPage ==
    cmd = "audit" /\ pc = "validating" /\ vpc = "returned" /\ Len(results') = Len(results) + 1

\* C17: the AuditResult of a page lists as issues the names of the checks
\* that did not pass, in the order of the checks, and carries the score of the
\* validation; the issues are empty exactly when every check passed; a page
\* that could not be fetched has score 0 and issues ["URL Accessible"].
C17_IssuesAreNonPassChecks ==
    [][RecordsPage =>
           LET new == results'[Len(results')]
           IN  /\ new.issues = NonPassNames(result.checks)
               /\ new.score = result.score
               /\ new.issues = <<>> <=>
                      \A i \in 1..Len(result.checks) : result.checks[i].status = "pass"
               /\ pageError # "none" =>
                      (new.score = 0 /\ new.issues = <<"URL Accessible">>)]_vars

\* an audit has recorded a page that could not be fetched and a page with
\* several checks that did not pass
C17_Witness ==
    /\ cmd = "audit"
    /\ Len(results) = 2
    /\ results[1].score = 0
    /\ results[1].issues = <<"URL Accessible">>
    /\ Len(results[2].issues) >= 2
    /\ results[2].score > 0

----------------------------------------------------------------------------
(* generateOG and generateOGBatch (part_004)                                 *)
(*                                                                         *)
(* A generation has no inventory, no sitemap and no validation: of the      *)
(* variables it uses cmd and pc, and the three below under the names of     *)
(* part_004.                                                                *)

\* the configs given to generateOG (one) or generateOGBatch
configs == paths

\* the number of configs the loop of generateOGBatch has gone through
configIndex == pathIndex

\* what was handed to the template and to page.setViewport, one per image
rendered == results

\* an option the config does not have, and one it gives
Omitted == [given |-> FALSE]
Given(v) == [given |-> TRUE, value |-> v]

\* lines 7-11
DEFAULT_FONTS == <<"Fraunces:wght@500;600", "Space Grotesk:wght@400;500;600">>
DEFAULT_ACCENT == "#f07c4f"
DEFAULT_ACCENT_SECONDARY == "#1f7a65"
DEFAULT_BACKGROUND == "#f7f3ec"
DEFAULT_TEXT_COLOR == "#101518"

\* a destructuring default: `option = d`
Default(v, d) == IF v.given THEN v.value ELSE d

\* the keys of `templates`, as the README lists them
TemplateIds == {"branded", "docs", "minimal", "editor-dark"}

\* lines 17-32 and 39-51, 62: the context and the viewport of a config
Rendering(config) ==
    [config   |-> config,
     template |-> Default(config.template, "branded"),
     context  |-> [accent          |-> Default(config.accent, DEFAULT_ACCENT),
                   accentSecondary |-> Default(config.accentSecondary, DEFAULT_ACCENT_SECONDARY),
                   background      |-> Default(config.background, DEFAULT_BACKGROUND),
                   textColor       |-> Default(config.textColor, DEFAULT_TEXT_COLOR),
                   width           |-> Default(config.width, 1200),
                   height          |-> Default(config.height, 630),
                   fonts           |-> Default(config.fonts, DEFAULT_FONTS)],
     viewport |-> [width             |-> Default(config.width, 1200),
                   height            |-> Default(config.height, 630),
                   deviceScaleFactor |-> Default(config.scale, 2)]]

\* lines 34-37: templates[template]
KnownTemplate(config) == Default(config.template, "branded") \in TemplateIds

\* the longest batch
MaxConfigs == 2

\* configs that give or omit each option
Configs ==
    [template : {Omitted, Given("minimal"), Given("nope")},
     accent : {Omitted, Given("#ff0000")}, accentSecondary : {Omitted},
     background : {Omitted, Given("#000000")},
     textColor : {Omitted, Given("#eeeeee")}, width : {Omitted, Given(800)},
     height : {Omitted, Given(400)}, scale : {Omitted, Given(1)},
     fonts : {Omitted, Given(<<"Roboto">>)}]

\* the config that omits every option, one that gives every option, and one
\* with a template that does not exist
BatchConfigs ==
    {c \in Configs :
        \/ \A k \in DOMAIN c : c[k] = Omitted
        \/ /\ c.template = Given("minimal")
           /\ \A k \in DOMAIN c \ {"accentSecondary"} : c[k].given
        \/ c.template = Given("nope") /\ \A k \in DOMAIN c \ {"template"} : c[k] = Omitted}

Batches == UNION {[1..n -> BatchConfigs] : n \in 0..MaxConfigs}

\* generateOG(config), lines 16-84: an unknown template throws
GenerateOG ==
    /\ cmd = "generate"
    /\ pc = "generateOG"
    /\ IF KnownTemplate(configs[1])
       THEN /\ results' = <<Rendering(configs[1])>>
            /\ pc' = "returned"
       ELSE /\ pc' = "rejected"
            /\ UNCHANGED results
    /\ UNCHANGED <<cmd, exitCode, runs, inventoryFile, base, findVars, sitemapUrls,
                   paths, pathIndex, validateVars>>

\* generateOGBatch(configs), lines 96-152: one iteration of the loop; an
\* unknown template is reported and the loop continues
GenerateOGBatchNext ==
    /\ cmd = "generate"
    /\ pc = "generateOGBatch"
    /\ configIndex < Len(configs)
    /\ pathIndex' = configIndex + 1
    /\ results' = IF KnownTemplate(configs[configIndex + 1])
                  THEN Append(rendered, Rendering(configs[configIndex + 1]))
                  ELSE rendered
    /\ UNCHANGED <<cmd, pc, exitCode, runs, inventoryFile, base, findVars,
                   sitemapUrls, paths, validateVars>>

\* lines 153-156: the loop is over
GenerateOGBatchReturns ==
    /\ cmd = "generate"
    /\ pc = "generateOGBatch"
    /\ configIndex = Len(configs)
    /\ pc' = "returned"
    /\ UNCHANGED <<cmd, exitCode, auditVars, validateVars>>

InitGenerate ==
    /\ cmd = "generate"
    /\ \/ pc = "generateOG" /\ paths \in {<<c>> : c \in Configs}
       \/ pc = "generateOGBatch" /\ paths \in Batches
    /\ exitCode = NotExited
    /\ runs = 1
    /\ inventoryFile = NoFile
    /\ base = <<>>
    /\ sitemapLocations = <<>>
    /\ locIndex = 0
    /\ sitemapMatch = NoMatch
    /\ xml = NoXml
    /\ sitemapUrls = <<>>
    /\ pathIndex = 0
    /\ results = <<>>
    /\ vpc = "idle"
    /\ targetUrl = <<>>
    /\ tags = NoTags
    /\ checks = <<>>
    /\ buffer = NoBuffer
    /\ pageError = "none"
    /\ result = NoResult
    /\ inflight = {}
    /\ netLog = <<>>

NextGenerate ==
    \/ GenerateOG
    \/ GenerateOGBatchNext
    \/ GenerateOGBatchReturns

SpecGenerate == InitGenerate /\ [][NextGenerate]_vars

----------------------------------------------------------------------------
(* Properties of generateOG and generateOGBatch (SpecGenerate) *)

\* the defaults of the README's table of configuration options
ReadmeDefault ==
    [template |-> "branded", accent |-> "#6366f1", background |-> "#0a0a0a",
     textColor |-> "#ffffff", width |-> 1200, height |-> 630, scale |-> 2,
     fonts |-> <<"Inter">>]

\* the value a rendering used for an option
Used(r, option) ==
    CASE option = "template" -> r.template
      [] option = "scale"    -> r.viewport.deviceScaleFactor
      [] OTHER               -> r.context[option]

\* C18: for every option a config omits, generateOG and generateOGBatch use
\* the default of the README: template 'branded', accent '#6366f1',
\* background '#0a0a0a', textColor '#ffffff', width 1200, height 630, scale 2,
\* fonts ['Inter'].
C18_ReadmeDefaultsApplied ==
    cmd = "generate" =>
        \A i \in 1..Len(rendered) : \A option \in DOMAIN ReadmeDefault :
            rendered[i].config[option] = Omitted =>
                Used(rendered[i], option) = ReadmeDefault[option]

----------------------------------------------------------------------------
(* Properties of validateOG, continued (SpecValidate) *)

\* the names of the checks checkImage makes
ImageCheckNames == {"og:image"} \cup ImageSubChecks

\* C19: for a page that was fetched, every validation step runs whatever the
\* earlier steps found, and the checks come in this order: one og:title, one
\* og:description, one or more image checks, one og:url, one twitter:card.
C19_AllStepsInOrder ==
    ReturnedFetched =>
        LET cs == result.checks
            n  == Len(cs)
        IN  /\ n >= 5
            /\ cs[1].name = "og:title"
            /\ cs[2].name = "og:description"
            /\ \A i \in 3..(n - 2) : cs[i].name \in ImageCheckNames
            /\ cs[n - 1].name = "og:url"
            /\ cs[n].name = "twitter:card"

\* title and description are missing and the image could not be fetched, and
\* the og:url and twitter:card checks were made all the same
C19_Witness ==
    /\ ReturnedFetched
    /\ Len(result.checks) = 6
    /\ result.checks[1].status = "fail"
    /\ result.checks[2].status = "fail"
    /\ result.checks[4] = ImageNotAccessible
    /\ result.checks[5].name = "og:url"
    /\ result.checks[6].name = "twitter:card"

\* validateOG has returned after it requested the image and did not get its
\* bytes: the fetch rejected, the response was not ok, or the body failed
ImageNotRetrieved ==
    /\ ReturnedFetched
    /\ \E i \in 1..Len(netLog) : netLog[i].kind = "image"
    /\ ~buffer.read

\* C20: whenever retrieving the image fails, at the request or while the body
\* is read, the result has a failed 'og:image accessible' check and no
\* og:image format, size or dimensions check, and the og:url and twitter:card
\* checks are made.
C20_ImageFailureShortCircuits ==
    ImageNotRetrieved =>
        LET cs == result.checks
            n  == Len(cs)
        IN  /\ \E i \in 1..n : cs[i].name = "og:image accessible" /\ cs[i].status = "fail"
            /\ \A i \in 1..n :
                   cs[i].name \notin {"og:image format", "og:image size", "og:image dimensions"}
            /\ cs[n - 1].name = "og:url"
            /\ cs[n].name = "twitter:card"

\* validateOG has returned after it read the bytes of the image
ImageRetrieved == ReturnedFetched /\ buffer.read

\* C21: for a fetched image of B bytes the og:image size check is fail when
\* B > 600 * 1024, warn when 480 * 1024 < B < 600 * 1024, and pass when
\* B < 480 * 1024.
C21_SizeBandsInBytes ==
    ImageRetrieved =>
        LET B == buffer.byteLength
            status == StatusOf(result.checks, "og:image size")
        IN  /\ HasCheck(result.checks, "og:image size")
            /\ B > 600 * 1024 => status = "fail"
            /\ (480 * 1024 < B /\ B < 600 * 1024) => status = "warn"
            /\ B < 480 * 1024 => status = "pass"

----------------------------------------------------------------------------
(* A call of getPNGDimensions(data)                                           *)
(*                                                                         *)
(* The probe has no network, no page and no inventory: of the variables it  *)
(* uses cmd, pc, buffer, which holds data and the dimensions returned, and  *)
(* the one below under the name of the code.                                *)

\* the local variable of getJPEGDimensions
offset == pathIndex

\* the most segments of a JPEG stream given to the probe
MaxSegments == 3

\* the four bytes of a PNG field
Quads ==
    {Quad(1200), Quad(630), Quad(0), <<0, 1, 0, 0>>, <<127, 255, 255, 255>>,
     <<128, 0, 0, 0>>, <<255, 255, 255, 255>>}

\* PNG files, whole and cut short
PNGInputs ==
    {PNGHeader(w, h) : w \in Quads, h \in Quads}
        \cup {SubSeq(PNGHeader(<<1, 2, 3, 4>>, <<5, 6, 7, 8>>), 1, k) : k \in {4, 18, 22}}

\* what follows the SOI marker: segments, frame headers of the types C0, C2
\* and C4, a zero length, a length past the end, a byte that is no marker, a
\* lone FF and a frame header cut short
JPEGPieces ==
    {APP0, <<255, 224, 0, 0>>, SOF(192, 630, 1200), SOF(194, 1, 2), SOF(196, 3, 4),
     <<255, 224, 255, 255>>, <<0>>, <<255>>, <<255, 195, 0>>}

RECURSIVE Concat(_)
Concat(ss) == IF ss = <<>> THEN <<>> ELSE Head(ss) \o Concat(Tail(ss))

JPEGInputs ==
    {SOI \o Concat(ps) : ps \in UNION {[1..n -> JPEGPieces] : n \in 0..MaxSegments}}

ProbeInputs ==
    PNGInputs \cup JPEGInputs \cup {<<>>, <<255>>, <<137, 80, 78>>, NotAnImage}

\* return of the probe
ProbeReturns(dimensions) ==
    /\ buffer' = [buffer EXCEPT !.dimensions = dimensions]
    /\ pc' = "returned"

\* lines 440-455: getPNGDimensions up to its return or to the call of
\* getJPEGDimensions and `let offset = 2`
CallGetPNGDimensions ==
    /\ cmd = "probe"
    /\ pc = "getPNGDimensions"
    /\ IF HasPNGSignature(buffer.data)
       THEN /\ ProbeReturns(Dims(Read32(buffer.data, 16), Read32(buffer.data, 20)))
            /\ UNCHANGED pathIndex
       ELSE IF HasJPEGSignature(buffer.data)
       THEN /\ pc' = "getJPEGDimensions"
            /\ pathIndex' = 2
            /\ UNCHANGED buffer
       ELSE /\ ProbeReturns(NoDims)
            /\ UNCHANGED pathIndex
    /\ UNCHANGED <<cmd, exitCode, runs, inventoryFile, base, findVars, sitemapUrls,
                   paths, results, vpc, targetUrl, tags, checks, pageError, result,
                   inflight, netLog>>

\* lines 460-475: one iteration of the loop of getJPEGDimensions
JPEGIteration ==
    /\ cmd = "probe"
    /\ pc = "getJPEGDimensions"
    /\ offset < Len(buffer.data)
    /\ IF At(buffer.data, offset) # 255
       THEN /\ ProbeReturns(NoDims)
            /\ UNCHANGED pathIndex
       ELSE IF IsSOF(At(buffer.data, offset + 1))
       THEN /\ ProbeReturns(FrameDimensions(buffer.data, offset))
            /\ UNCHANGED pathIndex
       ELSE /\ pathIndex' = NextOffset(buffer.data, offset)
            /\ UNCHANGED <<pc, buffer>>
    /\ UNCHANGED <<cmd, exitCode, runs, inventoryFile, base, findVars, sitemapUrls,
                   paths, results, vpc, targetUrl, tags, checks, pageError, result,
                   inflight, netLog>>

\* lines 460 and 477: the loop ends, return null
JPEGLoopEnds ==
    /\ cmd = "probe"
    /\ pc = "getJPEGDimensions"
    /\ offset >= Len(buffer.data)
    /\ ProbeReturns(NoDims)
    /\ UNCHANGED <<cmd, exitCode, runs, inventoryFile, base, findVars, sitemapUrls,
                   paths, pathIndex, results, vpc, targetUrl, tags, checks, pageError,
                   result, inflight, netLog>>

InitProbe ==
    /\ cmd = "probe"
    /\ pc = "getPNGDimensions"
    /\ \E data \in ProbeInputs :
           buffer = [read |-> TRUE, byteLength |-> Len(data), data |-> data,
                     dimensions |-> NoDims]
    /\ exitCode = NotExited
    /\ runs = 0
    /\ inventoryFile = NoFile
    /\ NoAudit
    /\ vpc = "idle"
    /\ targetUrl = <<>>
    /\ tags = NoTags
    /\ checks = <<>>
    /\ pageError = "none"
    /\ result = NoResult
    /\ inflight = {}
    /\ netLog = <<>>

NextProbe ==
    \/ CallGetPNGDimensions
    \/ JPEGIteration
    \/ JPEGLoopEnds

SpecProbe == InitProbe /\ [][NextProbe]_vars

\* a call that is running takes its next step
SpecProbeFair == SpecProbe /\ WF_vars(NextProbe)

----------------------------------------------------------------------------
(* Properties of getPNGDimensions and getJPEGDimensions (SpecProbe) *)

ProbeReturned == cmd = "probe" /\ pc = "returned"

----------------------------------------------------------------------------
(* Properties of validateOG, continued (SpecValidate) *)

----------------------------------------------------------------------------
(* Properties of getPNGDimensions and getJPEGDimensions, continued          *)
(* (SpecProbe)                                                              *)

\* v is the unsigned big-endian integer of the four bytes of data from
\* position i on, in halves of 16 bits
IsUnsigned32At(v, data, i) ==
    /\ v >= 0
    /\ v \div 65536 = data[i + 1] * 256 + data[i + 2]
    /\ v % 65536 = data[i + 3] * 256 + data[i + 4]

\* C23: for bytes that start with the PNG signature the probe returns as
\* width the big-endian unsigned 32-bit integer at bytes 16..19 and as height
\* the one at bytes 20..23, whatever those bytes are, so never a negative
\* number; a header with 1200 and 630 gives {1200, 630}.
C23_PNGFieldsUnsigned ==
    (ProbeReturned /\ HasPNGSignature(buffer.data) /\ Len(buffer.data) >= 24) =>
        /\ buffer.dimensions.found
        /\ IsUnsigned32At(buffer.dimensions.width, buffer.data, 16)
        /\ IsUnsigned32At(buffer.dimensions.height, buffer.data, 20)
        /\ buffer.data = PNGHeader(Quad(1200), Quad(630))
               => buffer.dimensions = Dims(1200, 630)

\* the byte at position i, 0 where the stream has ended
ByteOr0(data, i) == IF i < Len(data) THEN data[i + 1] ELSE 0

\* the big-endian 16-bit value at position i
BE16(data, i) == ByteOr0(data, i) * 256 + ByteOr0(data, i + 1)

\* the position of the k-th marker from the SOI marker on, each segment being
\* skipped by its length
RECURSIVE MarkerPosition(_, _)
MarkerPosition(data, k) ==
    IF k = 0 THEN 2
    ELSE LET p == MarkerPosition(data, k - 1) IN p + 2 + BE16(data, p + 2)

\* position p is inside the stream and holds 0xFF
HoldsMarker(data, p) == p < Len(data) /\ data[p + 1] = 255

\* position p holds a marker of a type in 0xC0..0xC3
HoldsSOF(data, p) ==
    HoldsMarker(data, p) /\ p + 1 < Len(data) /\ data[p + 2] \in 192..195

\* the k-th marker is the first SOF marker of the walk
FirstSOF(data, k) ==
    /\ HoldsSOF(data, MarkerPosition(data, k))
    /\ \A j \in 0..(k - 1) :
           /\ HoldsMarker(data, MarkerPosition(data, j))
           /\ ~HoldsSOF(data, MarkerPosition(data, j))

\* C24: for bytes that start with the JPEG SOI marker the probe walks the
\* markers from offset 2, skips each segment that is no SOF by its 2-byte
\* big-endian length, and at the first marker of a type in 0xC0..0xC3 returns
\* as height the 16-bit value read first and as width the one read next; it
\* returns no dimensions when a marker position does not hold 0xFF or the
\* stream ends without an SOF marker.  SOI and SOF0 with height 630 and width
\* 1200 give {1200, 630}.
C24_JPEGMarkerWalk ==
    (ProbeReturned /\ HasJPEGSignature(buffer.data)) =>
        LET data == buffer.data
            ks == {k \in 0..(Len(data) \div 2) : FirstSOF(data, k)}
        IN  /\ \A k \in ks :
                   LET p == MarkerPosition(data, k)
                   IN  buffer.dimensions = Dims(BE16(data, p + 7), BE16(data, p + 5))
            /\ ks = {} => buffer.dimensions = NoDims
            /\ data = SOI \o SOF(192, 630, 1200) => buffer.dimensions = Dims(1200, 630)

\* the walk has skipped an APP0 segment and returned the width 2 and the
\* height 1 of the SOF2 header behind it
C24_Witness ==
    /\ ProbeReturned
    /\ buffer.data = SOI \o APP0 \o SOF(194, 1, 2)
    /\ buffer.dimensions = Dims(2, 1)
    /\ offset = 8

\* a step of the marker walk that stays in the loop
WalkContinues == cmd = "probe" /\ pc = "getJPEGDimensions" /\ pc' = "getJPEGDimensions"

\* while the walk runs, offset is below the length at each iteration and
\* grows with each iteration that does not return
OffsetGrows == [][WalkContinues => (offset < Len(buffer.data) /\ offset' > offset)]_vars

\* C28: the JPEG marker walk terminates for every byte sequence, streams cut
\* short, zero segment lengths and reads past the end included: the offset
\* grows on every iteration until it reaches the length of the buffer, a byte
\* that is not 0xFF is met, or an SOF marker is found.
C28_MarkerWalkTerminates == OffsetGrows /\ <>(pc = "returned")

\* the walk has passed a segment of length zero and ended at a byte that is
\* no marker
C28_Witness ==
    /\ ProbeReturned
    /\ buffer.data = SOI \o <<255, 224, 0, 0>> \o APP0
    /\ offset = 4
    /\ buffer.dimensions = NoDims

----------------------------------------------------------------------------
(* Properties of validateOG, continued (SpecValidate) *)

\* checkImage has gone past its URL check for a page that has og:image
ImageUrlChecked ==
    /\ vpc \in {"imageFetch", "imageBody", "returned"}
    /\ pageError = "none"
    /\ ~FalsyTag(tags.image)

\* the URL of the image request
ImageRequested == (CHOOSE i \in 1..Len(netLog) : netLog[i].kind = "image")

\* C25: when og:image is present, the 'og:image URL' check is warn exactly
\* when the value of the tag is not an absolute URL and pass otherwise, and
\* the URL fetched is the value when it is absolute, the page origin and the
\* value when the value starts with '/', and the page origin, '/' and the
\* value for any other value.
C25_ImageUrlResolution ==
    ImageUrlChecked =>
        LET value == tags.image.s
            origin == SubSeq(targetUrl, 1, 2)
        IN  /\ checks[3].name = "og:image URL"
            /\ checks[3].status = (IF URLParses(value) THEN "pass" ELSE "warn")
            /\ \E i \in 1..Len(netLog) : netLog[i].kind = "image"
            /\ netLog[ImageRequested].url =
                   (IF URLParses(value) THEN value
                    ELSE IF value[1] = "/" THEN origin \o value
                    ELSE origin \o <<"/">> \o value)

----------------------------------------------------------------------------
(* Properties of auditSite, continued (SpecAudit) *)

\* the requests of validateOG among those in flight
ValidationRequests == {r \in inflight : r.kind \in {"page", "image"}}

\* the results so far are those of the first paths, in the order of the paths
ResultsFollowPaths ==
    /\ Len(results) <= Len(paths)
    /\ \A i \in 1..Len(results) : results[i].url = FullUrl(paths[i])

\* a step of an audit that issues a request issues one, and a request of
\* validateOG only when the one before it is over: the image request of a
\* page when the text of the page has been read, the request of the next page
\* when the validation of the page before has returned and its result has been
\* appended
RequestsOneAfterTheOther ==
    (cmd = "audit" /\ Len(netLog') > Len(netLog)) =>
        /\ Len(netLog') = Len(netLog) + 1
        /\ SubSeq(netLog', 1, Len(netLog)) = netLog
        /\ inflight' = {netLog'[Len(netLog')]}
        /\ LET r == netLog'[Len(netLog')] IN
           /\ r.kind = "image" =>
                  /\ vpc = "pageText"
                  /\ inflight = {PageRequest(targetUrl)}
                  /\ targetUrl = FullUrl(paths[pathIndex])
                  /\ UNCHANGED <<pathIndex, results>>
           /\ r.kind = "page" =>
                  /\ vpc \in {"idle", "returned"}
                  /\ ValidationRequests = {}
                  /\ r.url = FullUrl(paths'[pathIndex'])
                  /\ Len(results') = pathIndex' - 1

\* C26: throughout an audit at most one request is in flight: the page fetch
\* of a page is over before its image fetch starts, the validation of a page
\* is over before the page fetch of the next page starts, and the results
\* are appended in the order of the paths.
C26_OneRequestAtATime ==
    /\ [](cmd = "audit" => (Cardinality(inflight) <= 1 /\ ResultsFollowPaths))
    /\ [][RequestsOneAfterTheOther]_vars

\* two pages with an image each have been validated one after the other
C26_Witness ==
    /\ cmd = "audit"
    /\ Len(results) = 2
    /\ results[1].url # results[2].url
    /\ \E i \in 1..Len(netLog) :
        /\ i + 3 = Len(netLog)
        /\ netLog[i].kind = "page" /\ netLog[i + 1].kind = "image"
        /\ netLog[i + 2].kind = "page" /\ netLog[i + 3].kind = "image"

\* C27: in every result that validateOG returns each check name occurs at
\* most once, whatever becomes of the page fetch, the image fetch and the
\* reading of the image body.
C27_CheckNamesDistinct ==
    vpc = "returned" =>
        \A i, j \in 1..Len(result.checks) :
            result.checks[i].name = result.checks[j].name => i = j

\* the checks of the result whose name begins with og:image
ImageChecksOf(cs) ==
    SelectSeq(cs, LAMBDA c : c.name \in {"og:image", "og:image URL",
                                         "og:image accessible", "og:image format",
                                         "og:image size", "og:image dimensions"})

\* C29: a result of validateOG has a check named 'og:image' exactly when the
\* og:image tag is absent, the check is then fail and the only image check;
\* when the tag is present there is no such check, and the weights of the
\* checks of a result never add up to 105.
C29_ImagePresenceCheck ==
    ReturnedFetched =>
        LET images == ImageChecksOf(result.checks) IN
        /\ (\E i \in 1..Len(images) : images[i].name = "og:image")
               <=> ~tags.image.present
        /\ ~tags.image.present => images = <<MissingImageCheck>>
        /\ Possible(result.checks) < 105

\* C30: every inventory that auditSite writes has at least one page: the
\* paths to audit, once the sitemap or the prompt has given them, are never
\* empty, auditSite returns only by writing the inventory after its last
\* page (never by the return for no paths), and the averageScore written is
\* an integer from 0 to 100.
C30_InventoryHasAPage ==
    [][(cmd = "audit" /\ runs' = runs) =>
           /\ paths' # paths => Len(paths') > 0
           /\ (pc \notin {"start", "exited"} /\ pc' = "exited") => AuditWrites
           /\ AuditWrites =>
                  /\ inventoryFile'.exists
                  /\ Len(inventoryFile'.pages) >= 1
                  /\ inventoryFile'.totalPages = Len(inventoryFile'.pages)
                  /\ inventoryFile'.averageScore \in 0..100]_vars

\* an audit without sitemap URLs has asked for the paths and has written the
\* inventory of the pages it was given
C30_Witness ==
    /\ cmd = "audit"
    /\ pc = "exited"
    /\ sitemapUrls = <<>>
    /\ Len(paths) >= 1
    /\ inventoryFile.exists
    /\ inventoryFile.pages = results
    /\ inventoryFile.totalPages = Len(paths)
    /\ inventoryFile.averageScore \in 1..100

====
